---- MODULE Spec2Model ----
(***************************************************************************)
(* A model of ptyx: the PtyAgent session (middleware chain, message        *)
(* numbering, history, lifecycle, waitFor) and the AgentPool               *)
(* (acquire / release / warmup).  Both classes live in src/src/agent.ts,   *)
(* the helpers (createMessage, stripAnsi, matchPattern, withTimeout,       *)
(* FlushBuffer) in src/unnamed/part_017, the adapter registry in           *)
(* src/unnamed/part_014.                                                   *)
(*                                                                         *)
(* JavaScript runs one macrotask at a time; an action of the model is one  *)
(* run of a handler up to the point where it suspends on a timer, on I/O   *)
(* or on a user callback that completes later.                             *)
(***************************************************************************)
EXTENDS Integers, Sequences, FiniteSets, TLC

\* ------------------------------------------------------------------------
\* Bounds of the model
\* ------------------------------------------------------------------------
MaxMsgs == 2
MaxWrites == 2
MaxUses == 2
MaxChildren == 2
MaxWaits == 2
MaxAllWaits == 1
MaxBuf == 3
MaxCallers == 3
MaxCreated == 3
MaxAcquires == 3
MaxAdapters == 5
MaxSockets == 3

\* ------------------------------------------------------------------------
\* Program constants
\* ------------------------------------------------------------------------
DefaultPriority == 100
DefaultMaxRestarts == 3
NoPriority == -1
NoPty == 0

\* ------------------------------------------------------------------------
\* Sequence helpers (Array.prototype.findIndex / splice / filter)
\* ------------------------------------------------------------------------
\* findIndex: the least index of the set hits, 0 for JavaScript's -1
FindIndex(hits) ==
  IF hits = {} THEN 0 ELSE CHOOSE i \in hits : \A j \in hits : i <= j

\* splice(i, 0, e) with a 1-based index
InsertAt(s, i, e) == SubSeq(s, 1, i - 1) \o <<e>> \o SubSeq(s, i, Len(s))

\* splice(i, 1) with a 1-based index
RemoveAt(s, i) == SubSeq(s, 1, i - 1) \o SubSeq(s, i + 1, Len(s))

\* String.prototype.includes on sequences of characters
Includes(text, pat) ==
  \E i \in 0..(Len(text) - Len(pat)) : SubSeq(text, i + 1, i + Len(pat)) = pat

\* String.prototype.endsWith for a single character
EndsWith(s, ch) == Len(s) > 0 /\ s[Len(s)] = ch

\* ------------------------------------------------------------------------
\* Messages
\* ------------------------------------------------------------------------
\* Characters: "E" is ESC (\x1B), "n" is the newline, "M" a capital letter.
\* The character classes of the stripAnsi regular expression over them:
\*   [@-Z\\-_]  : "M"          [0-?] : "0"        [ -/] : (none here)
\*   [@-~]      : "a" "b" "m" "M" "["
EscFinal == {"M"}
CsiParam == {"0"}
CsiIntermediate == {}
CsiFinal == {"a", "b", "m", "M", "["}

\* length of the longest run of characters of class cls at the head of s
RECURSIVE RunLen(_, _)
RunLen(s, cls) ==
  IF Len(s) > 0 /\ s[1] \in cls THEN 1 + RunLen(Tail(s), cls) ELSE 0

\* length of the escape sequence at the head of s (s[1] is ESC), 0 if the
\* regular expression does not match there
EscSeqLen(s) ==
  IF Len(s) < 2 THEN 0
  ELSE IF s[2] \in EscFinal THEN 2
  ELSE IF s[2] = "["
    THEN LET rest == SubSeq(s, 3, Len(s))
             p == RunLen(rest, CsiParam)
             rest2 == SubSeq(rest, p + 1, Len(rest))
             q == RunLen(rest2, CsiIntermediate)
             rest3 == SubSeq(rest2, q + 1, Len(rest2))
         IN IF Len(rest3) > 0 /\ rest3[1] \in CsiFinal THEN 2 + p + q + 1 ELSE 0
    ELSE 0

\* text.replace(/\x1B(?:[@-Z\\-_]|\[[0-?]*[ -/]*[@-~])/g, '')
RECURSIVE stripAnsi(_)
stripAnsi(s) ==
  IF Len(s) = 0 THEN <<>>
  ELSE IF s[1] = "E" /\ EscSeqLen(s) > 0
    THEN stripAnsi(SubSeq(s, EscSeqLen(s) + 1, Len(s)))
    ELSE <<s[1]>> \o stripAnsi(Tail(s))

createMessage(raw, direction, seqNo) ==
  [raw |-> raw, text |-> stripAnsi(raw), direction |-> direction, seq |-> seqNo,
   meta |-> {}]

\* matchPattern as it would be if it tested an empty expression, which
\* every text matches
matchPatternEmpty(text, pattern) == TRUE

matchPattern(text, pattern) == Includes(text, pattern)

\* ------------------------------------------------------------------------
\* Middleware stages
\* ------------------------------------------------------------------------
\* The handler of a stage is user code; the model draws it from these kinds:
\*   mutate : msg.raw = msg.raw + "m"; await next()
\*   drop   : return without calling next
\*   throw  : throw before calling next
\*   slow   : await a timer, then await next()
Kinds == {"mutate", "drop", "throw", "slow"}

Stage(name, direction, priority, enabled, fn) ==
  [name |-> name, direction |-> direction, priority |-> priority,
   enabled |-> enabled, fn |-> fn]

\* The stages that use() and the constructor configuration draw from
StagePool ==
  { Stage("xform", "in", 50, TRUE, "mutate"),
    Stage("block", "in", NoPriority, TRUE, "drop"),
    Stage("boom", "out", 100, TRUE, "throw"),
    Stage("slow", "both", 100, TRUE, "slow"),
    Stage("off", "both", 10, FALSE, "mutate") }

\* mw.priority ?? 100
Prio(mw) == IF mw.priority = NoPriority THEN DefaultPriority ELSE mw.priority

\* use() as it would be with `>=` in the findIndex test: a new stage goes
\* before the stages of its own priority
UseInsertBeforeTies(chain, mw) ==
  LET idx == FindIndex({ i \in 1..Len(chain) : Prio(chain[i]) >= Prio(mw) })
  IN IF idx = 0 THEN Append(chain, mw) ELSE InsertAt(chain, idx, mw)

\* use(): insert before the first stage of strictly greater priority
UseInsert(chain, mw) ==
  LET idx == FindIndex({ i \in 1..Len(chain) : Prio(chain[i]) > Prio(mw) })
  IN IF idx = 0 THEN Append(chain, mw) ELSE InsertAt(chain, idx, mw)

\* unuse(): remove the first stage of that name
UnuseRemove(chain, name) ==
  LET idx == FindIndex({ i \in 1..Len(chain) : chain[i].name = name })
  IN IF idx # 0 THEN RemoveAt(chain, idx) ELSE chain

\* the filter as it would be without the `enabled !== false` test
ApplicableIgnoringEnabled(chain, direction) ==
  SelectSeq(chain, LAMBDA mw : mw.direction = "both" \/ mw.direction = direction)

\* the filter at the head of runMiddleware
Applicable(chain, direction) ==
  SelectSeq(chain, LAMBDA mw : mw.enabled /\ (mw.direction = "both" \/ mw.direction = direction))

\* ------------------------------------------------------------------------
\* State
\* ------------------------------------------------------------------------
VARIABLES
  config,        \* PtyAgent.config (frozen by the constructor)
  middlewares,   \* PtyAgent._middlewares; each stage carries the ordinal of its use() call
  nextStamp,     \* ordinal of the next use() call
  seq,           \* PtyAgent._seq
  history,       \* PtyAgent._history
  chains,        \* the runMiddleware calls in progress, by message number
  last,          \* the runMiddleware call that settled most recently
  written,       \* what the child has received through pty.write
  running,       \* PtyAgent._running
  disposed,      \* PtyAgent._disposed
  pty,           \* PtyAgent._pty: the tracked child, NoPty for null
  live,          \* children that were started and have not exited
  nextPid,       \* the next child to start
  spawning,      \* spawn() calls suspended at `await import('node-pty')`
  restartCount,  \* PtyAgent._restartCount
  restartPending,\* handleRestart calls suspended at `await sleep(restartDelay)`
  disposePc,     \* position of dispose(): "idle", "waiting" (for exit or 5 s), "done"
  buffer,        \* FlushBuffer.buffer
  timer,         \* FlushBuffer.timer: NoTimer, or the handle of the armed timer
  waits,         \* one record per waitFor call
  allWaits,      \* one record per waitForAll call
  msgListeners,  \* handlers attached to the 'message' event: w for the waitFor
                 \* call w, -k for the waitForAll call k
  errListener,   \* someone listens to the 'error' event
  crashed,       \* the process ended on an unhandled promise rejection
  exitFlushed,   \* number of the message the last onExit handler flushed, 0 for none
  exitView       \* the numbers in history as the listeners of that 'exit' saw it

sessionVars ==
  <<config, middlewares, nextStamp, seq, history, chains, last, written, running,
    disposed, pty, live, nextPid, spawning, restartCount, restartPending,
    disposePc, buffer, timer, waits, allWaits, msgListeners, errListener,
    crashed, exitFlushed, exitView>>

msgVars == <<seq, history, chains, last, written, waits, allWaits, msgListeners,
            crashed>>
lifeVars == <<running, disposed, pty, live, nextPid, spawning, restartCount,
              restartPending, disposePc>>
exitVars == <<exitFlushed, exitView>>

\* The pool (AgentPool)
VARIABLES
  poolConfig,    \* AgentPool._config: maxAgents, minIdle
  agents,        \* AgentPool._agents: session id -> PooledAgent (inUse, useCount,
                 \* expired: lastUsed is more than idleTimeout ago); ids grow
                 \* with creation, so Map iteration order is ascending id
  sessions,      \* the sessions the pool created: running, disposed, disposing
                 \* (dispose() waits for the exit), hooked (the pool's
                 \* once('exit') listener is attached)
  nextAgent,     \* id of the next session to create
  callers,       \* one record per caller: pc, cand (the entry its acquire()
                 \* is working on), held (the session acquire() gave it)
  waitQueue,     \* AgentPool._waitQueue, as the callers whose promise is queued
  warming,       \* _createAgent calls started by warmup() and not yet resolved
  stats,         \* AgentPool._stats
  destroyed,     \* AgentPool._destroyed
  timers         \* the callers whose acquireTimeout timer is armed

poolVars ==
  <<poolConfig, agents, sessions, nextAgent, callers, waitQueue, warming, stats,
    destroyed, timers>>

\* The adapter registry (module state of the adapters module)
VARIABLES
  adapters       \* the `adapters` array, first element first

registryVars == <<adapters>>

\* The terminal server (PtyServer)
VARIABLES
  serverConfig,  \* PtyServer._config: maxConnections, maxConnectionsPerIP
  connections,   \* PtyServer._connections: connection -> client address
  ipConnections, \* PtyServer._ipConnections: client address -> a Set object
  ipSets,        \* the Set objects: the set made by `new Set()` in the handler
                 \* of the socket s is ipSets[s]
  handlers       \* one _handleConnection call per socket: pc, ip, ipConns (the
                 \* Set object its local variable refers to)

serverVars == <<serverConfig, connections, ipConnections, ipSets, handlers>>

\* ------------------------------------------------------------------------
\* Inputs
\* ------------------------------------------------------------------------
InData == { <<"a">> }
OutChunks == { <<"a">>, <<"b", "n">>, <<"E", "[", "m">> }
Patterns == { <<"a">>, <<"b">> }
\* The boundaries of the FlushBuffer as they would be with '\n' alone
BoundariesNewlineOnly == { "n" }

\* the default `boundaries` of the FlushBuffer: '\n' and '\r'
Boundaries == { "n", "r" }
StageNames == { mw.name : mw \in StagePool }
ConfigMiddleware ==
  { <<>> } \cup { <<mw>> : mw \in StagePool }
    \cup { <<m1, m2>> : m1 \in StagePool, m2 \in StagePool }
Undefined == -2
ConfigMaxRestarts == { Undefined, 0, 1 }

WithStamp(mw, n) ==
  [name |-> mw.name, direction |-> mw.direction, priority |-> mw.priority,
   enabled |-> mw.enabled, fn |-> mw.fn, stamp |-> n]

\* the constructor's loop `for (const mw of this.config.middleware) this.use(mw)`
RECURSIVE UseAll(_, _, _)
UseAll(chain, mws, n) ==
  IF Len(mws) = 0 THEN chain
  ELSE UseAll(UseInsert(chain, WithStamp(Head(mws), n)), Tail(mws), n + 1)

\* ------------------------------------------------------------------------
\* The middleware engine
\* ------------------------------------------------------------------------
\* A chain record: the message, the data it was created from, the filtered stages, idx (the closure variable
\* of runMiddleware), the stages entered so far, and where the call stands:
\*   status  "suspended" (a stage awaits a timer), "done" (the promise of
\*           runMiddleware resolved), "rejected" (it rejected)
\*   outcome "passed" (every stage called next), "dropped", "threw"
\*   errors  the number of emit('error') calls
NewChain(msg, direction, chain) ==
  [msg |-> msg, data |-> msg.raw, applicable |-> Applicable(chain, direction), idx |-> 0,
   ran |-> <<>>, status |-> "suspended", outcome |-> "passed", errors |-> 0]

NoChain == [status |-> "none"]

\* f with its entry for key k removed / set
Without(f, k) == [x \in DOMAIN f \ {k} |-> f[x]]
With(f, k, v) == [x \in DOMAIN f \cup {k} |-> IF x = k THEN v ELSE f[x]]

\* next(): run stages from idx on, until the chain ends, a stage does not
\* call next, a stage throws, or a stage suspends.  emit('error') throws the
\* error itself when the emitter has no 'error' listener, so the catch block
\* of every enclosing next() rethrows and runMiddleware rejects.
RECURSIVE next(_, _)
next(c, hasErrListener) ==
  IF c.idx >= Len(c.applicable) THEN [c EXCEPT !.status = "done"]
  ELSE LET mw == c.applicable[c.idx + 1]
           c1 == [c EXCEPT !.idx = @ + 1, !.ran = Append(@, mw)]
       IN CASE mw.fn = "mutate" ->
                 next([c1 EXCEPT !.msg.raw = Append(@, "m")], hasErrListener)
            [] mw.fn = "drop" -> [c1 EXCEPT !.status = "done", !.outcome = "dropped"]
            [] mw.fn = "throw" ->
                 IF hasErrListener
                 THEN [c1 EXCEPT !.status = "done", !.outcome = "threw", !.errors = 1]
                 ELSE [c1 EXCEPT !.status = "rejected", !.outcome = "threw",
                                 !.errors = c1.idx]
            [] mw.fn = "slow" -> [c1 EXCEPT !.status = "suspended"]

\* The argument of write() as it would be if send() wrote the content it was
\* called with
OutgoingAsSent(c) == c.data

\* this.write(msg.raw) in the .then callback of send(): the content of the
\* message object after the chain
Outgoing(c) == c.msg.raw

\* write() as it would be if it only emitted the 'data' event
writeNothing(w, data) == w

\* write(): forward to the child only when there is a pty and it runs
write(w, data) == IF pty # NoPty /\ running THEN Append(w, data) ELSE w

\* The handlers as they would be if one 'message' event were given to the
\* first waitFor handler that accepts it only
MatchingFirstOnly(msg) ==
  LET hits == { w \in msgListeners \cap DOMAIN waits :
                  msg.direction = "out" /\ matchPattern(msg.text, waits[w].pattern) }
  IN { w \in hits : \A other \in hits : w <= other }

\* The test of the waitFor handler as it would be without the direction check
MatchingAnyDirection(msg) ==
  { w \in msgListeners \cap DOMAIN waits : matchPattern(msg.text, waits[w].pattern) }

\* the waitFor handlers that a 'message' event resolves
Matching(msg) ==
  { w \in msgListeners \cap DOMAIN waits :
      msg.direction = "out" /\ matchPattern(msg.text, waits[w].pattern) }

\* the handler of waitFor: off('message', handler); resolve(msg)
Resolve(w, msg) ==
  IF w.status = "pending" THEN [w EXCEPT !.status = "resolved", !.by = msg.seq] ELSE w

\* waitForAll keeps, per pattern, the number of the first outbound message
\* that matched it after the call (0 for none yet); a pattern that has its
\* message is not matched again.  The handler of the call k is -k.
AllId(k) == 0 - k

ResolveAll(r, msg) ==
  LET got == [i \in DOMAIN r.patterns |->
                IF /\ r.got[i] = 0
                   /\ msg.direction = "out"
                   /\ matchPattern(msg.text, r.patterns[i])
                THEN msg.seq ELSE r.got[i]]
  IN [r EXCEPT !.got = got,
               !.status = IF @ = "pending" /\ \A i \in DOMAIN got : got[i] # 0
                          THEN "resolved" ELSE @]

\* the waitForAll records after the 'message' event for msg
AllAfter(msg) ==
  [k \in DOMAIN allWaits |->
     IF AllId(k) \in msgListeners THEN ResolveAll(allWaits[k], msg) ELSE allWaits[k]]

\* the waitForAll handlers that msg completes: they detach themselves
AllCompleted(msg) ==
  { AllId(k) : k \in { j \in DOMAIN allWaits :
                        /\ AllId(j) \in msgListeners
                        /\ \A i \in DOMAIN allWaits[j].patterns :
                             AllAfter(msg)[j].got[i] # 0 } }

\* The .then callback as it would be if it recorded the content the message
\* was created with instead of the message object the chain worked on
AfterChainRecordingInput(c) ==
  IF c.status = "done"
  THEN [history |-> Append(history, [c.msg EXCEPT !.raw = c.data]),
        written |-> IF c.msg.direction = "in" THEN write(written, c.msg.raw) ELSE written,
        waits |-> [w \in DOMAIN waits |->
                    IF w \in Matching(c.msg) THEN Resolve(waits[w], c.msg) ELSE waits[w]],
        allWaits |-> AllAfter(c.msg),
        msgListeners |-> (msgListeners \ Matching(c.msg)) \ AllCompleted(c.msg)]
  ELSE [history |-> history, written |-> written, waits |-> waits,
        allWaits |-> allWaits, msgListeners |-> msgListeners]

\* The .then callback of send() and of handleOutput() for the chain c, as
\* the values it leaves in history, written, waits and msgListeners
AfterChain(c) ==
  IF c.status = "done"
  THEN [history |-> Append(history, c.msg),
        written |-> IF c.msg.direction = "in" THEN write(written, Outgoing(c)) ELSE written,
        waits |-> [w \in DOMAIN waits |->
                    IF w \in Matching(c.msg) THEN Resolve(waits[w], c.msg) ELSE waits[w]],
        allWaits |-> AllAfter(c.msg),
        msgListeners |-> (msgListeners \ Matching(c.msg)) \ AllCompleted(c.msg)]
  ELSE [history |-> history, written |-> written, waits |-> waits,
        allWaits |-> allWaits, msgListeners |-> msgListeners]

\* Apply the outcome of running chain c: it stays in progress when a stage
\* suspended it, else its .then callback runs.  A rejected runMiddleware
\* promise has no handler: the runtime either ends the process or only
\* warns.  detachAll: removeAllListeners() follows in the same task.
Settle(c, detachAll) ==
  LET r == AfterChain(c)
  IN /\ IF c.status = "suspended"
        THEN chains' = With(chains, c.msg.seq, c) /\ UNCHANGED last
        ELSE chains' = Without(chains, c.msg.seq) /\ last' = c
     /\ history' = r.history
     /\ written' = r.written
     /\ waits' = r.waits
     /\ allWaits' = r.allWaits
     /\ msgListeners' = IF detachAll THEN {} ELSE r.msgListeners
     /\ IF c.status = "rejected"
        THEN \E outcome \in BOOLEAN : crashed' = outcome
        ELSE UNCHANGED crashed

\* createMessage(data, direction, this.id, ++this._seq); runMiddleware(...).then(...)
StartChain(data, direction, detachAll) ==
  LET msg == createMessage(data, direction, seq + 1)
      c == next(NewChain(msg, direction, middlewares), errListener)
  IN /\ seq' = seq + 1
     /\ Settle(c, detachAll)

\* ------------------------------------------------------------------------
\* Session operations
\* ------------------------------------------------------------------------
Use(mw) ==
  /\ ~crashed
  /\ nextStamp <= Len(config.middleware) + MaxUses
  /\ middlewares' = UseInsert(middlewares, WithStamp(mw, nextStamp))
  /\ nextStamp' = nextStamp + 1
  /\ UNCHANGED <<config, msgVars, lifeVars, buffer, timer, errListener>>
  /\ UNCHANGED exitVars
  /\ UNCHANGED <<poolVars, registryVars, serverVars>>

Unuse(name) ==
  /\ ~crashed
  /\ \E i \in 1..Len(middlewares) : middlewares[i].name = name
  /\ middlewares' = UnuseRemove(middlewares, name)
  /\ UNCHANGED <<config, nextStamp, msgVars, lifeVars, buffer, timer, errListener>>
  /\ UNCHANGED exitVars
  /\ UNCHANGED <<poolVars, registryVars, serverVars>>

Send(data) ==
  /\ ~crashed
  /\ seq < MaxMsgs
  /\ StartChain(data, "in", FALSE)
  /\ UNCHANGED <<config, middlewares, nextStamp, lifeVars, buffer, timer, errListener>>
  /\ UNCHANGED exitVars
  /\ UNCHANGED <<poolVars, registryVars, serverVars>>

\* the raw content given to write() and to Context.send
RawData == { <<"w">> }

\* the number of raw writes the child received
RawWrites(w) == Cardinality({ i \in DOMAIN w : w[i] \in RawData })

\* write() as it would be if it went through send()
WriteAsSend(data) == Send(data)

\* write(data) called from outside: pty.write when the session runs, then
\* emit('data', data, 'in'), which no part of the session listens to
Write(data) ==
  /\ ~crashed
  /\ RawWrites(written) < MaxWrites
  /\ written' = write(written, data)
  /\ UNCHANGED <<config, middlewares, nextStamp, seq, history, chains, last, waits, allWaits,
                 msgListeners, crashed, lifeVars, buffer, timer, errListener>>
  /\ UNCHANGED exitVars
  /\ UNCHANGED <<poolVars, registryVars, serverVars>>

\* the content given to sendSecret and the marker that replaces it
SecretData == { <<"s">> }
Redacted == <<"R">>

\* sendSecret(data): write(data) without a chain, and a history entry that
\* holds the marker and is flagged secret
SendSecret(data) ==
  /\ ~crashed
  /\ seq < MaxMsgs
  /\ seq' = seq + 1
  /\ written' = write(written, data)
  /\ history' = Append(history, [createMessage(Redacted, "in", seq + 1)
                                   EXCEPT !.meta = {"secret"}])
  /\ UNCHANGED <<config, middlewares, nextStamp, chains, last, waits, allWaits,
                 msgListeners, crashed, lifeVars, buffer, timer, errListener>>
  /\ UNCHANGED exitVars
  /\ UNCHANGED <<poolVars, registryVars, serverVars>>

\* ctx.send(data) called by the stage at which the chain s is suspended:
\* `send: (data) => this.write(data)`
ContextSend(s, data) ==
  /\ s \in DOMAIN chains
  /\ Write(data)

\* the timer a "slow" stage awaits fires: the stage calls next()
ResumeStage(s) ==
  /\ ~crashed
  /\ s \in DOMAIN chains
  /\ LET c == next(chains[s], errListener)
     IN Settle(c, FALSE)
  /\ UNCHANGED <<config, middlewares, nextStamp, seq, lifeVars, buffer, timer, errListener>>
  /\ UNCHANGED exitVars
  /\ UNCHANGED <<poolVars, registryVars, serverVars>>

\* clear() as it would be if it also reset the sequence counter
ClearResettingSeq ==
  /\ ~crashed
  /\ history # <<>>
  /\ history' = <<>>
  /\ seq' = 0
  /\ UNCHANGED <<config, middlewares, nextStamp, chains, last, written, waits, allWaits,
                 msgListeners, crashed, lifeVars, buffer, timer, errListener>>
  /\ UNCHANGED exitVars
  /\ UNCHANGED <<poolVars, registryVars, serverVars>>

\* clear(); release() of a pool calls it on the session it takes back
Clear ==
  /\ ~crashed
  /\ history # <<>>
  /\ history' = <<>>
  /\ UNCHANGED <<config, middlewares, nextStamp, seq, chains, last, written, waits, allWaits,
                 msgListeners, crashed, lifeVars, buffer, timer, errListener>>
  /\ UNCHANGED exitVars
  /\ UNCHANGED <<poolVars, registryVars, serverVars>>

\* agent.on('error', listener)
OnError ==
  /\ ~crashed
  /\ ~errListener
  /\ errListener' = TRUE
  /\ UNCHANGED <<config, middlewares, nextStamp, msgVars, lifeVars, buffer, timer>>
  /\ UNCHANGED exitVars
  /\ UNCHANGED <<poolVars, registryVars, serverVars>>

\* ------------------------------------------------------------------------
\* waitFor
\* ------------------------------------------------------------------------
\* a record per call: the pattern, the state of the returned promise, the
\* number of the message it resolved with, and the value of _seq at the call
WaitFor(pattern) ==
  /\ ~crashed
  /\ Len(waits) < MaxWaits
  /\ waits' = Append(waits, [pattern |-> pattern, status |-> "pending", by |-> 0,
                              since |-> seq])
  /\ msgListeners' = msgListeners \cup {Len(waits) + 1}
  /\ UNCHANGED <<allWaits, config, middlewares, nextStamp, seq, history, chains, last, written,
                 crashed, lifeVars, buffer, timer, errListener>>
  /\ UNCHANGED exitVars
  /\ UNCHANGED <<poolVars, registryVars, serverVars>>

\* waitForAll(patterns, timeout): one handler for the whole set
WaitForAll(patterns) ==
  /\ ~crashed
  /\ Len(allWaits) < MaxAllWaits
  /\ allWaits' = Append(allWaits, [patterns |-> patterns,
                                    got |-> [i \in DOMAIN patterns |-> 0],
                                    status |-> "pending", since |-> seq])
  /\ msgListeners' = msgListeners \cup {AllId(Len(allWaits) + 1)}
  /\ UNCHANGED <<config, middlewares, nextStamp, seq, history, chains, last, written,
                 waits, crashed, lifeVars, buffer, timer, errListener>>
  /\ UNCHANGED exitVars
  /\ UNCHANGED <<poolVars, registryVars, serverVars>>

\* the timeout of the waitForAll call k elapses with the set incomplete
WaitAllTimeout(k) ==
  /\ ~crashed
  /\ k \in DOMAIN allWaits
  /\ allWaits[k].status = "pending"
  /\ allWaits' = [allWaits EXCEPT ![k].status = "rejected"]
  /\ UNCHANGED <<config, middlewares, nextStamp, seq, history, chains, last, written,
                 waits, msgListeners, crashed, lifeVars, buffer, timer, errListener>>
  /\ UNCHANGED exitVars
  /\ UNCHANGED <<poolVars, registryVars, serverVars>>

\* The timer of withTimeout as it would be if removeAllListeners() cancelled
\* it together with the handler
WaitTimeoutWhileAttached(w) ==
  /\ ~crashed
  /\ w \in DOMAIN waits
  /\ w \in msgListeners
  /\ waits[w].status = "pending"
  /\ waits' = [waits EXCEPT ![w].status = "rejected"]
  /\ UNCHANGED <<allWaits, config, middlewares, nextStamp, seq, history, chains, last, written,
                 msgListeners, crashed, lifeVars, buffer, timer, errListener>>
  /\ UNCHANGED exitVars
  /\ UNCHANGED <<poolVars, registryVars, serverVars>>

\* the timer of withTimeout fires: the race rejects; nothing else is done
WaitTimeout(w) ==
  /\ ~crashed
  /\ w \in DOMAIN waits
  /\ waits[w].status = "pending"
  /\ waits' = [waits EXCEPT ![w].status = "rejected"]
  /\ UNCHANGED <<allWaits, config, middlewares, nextStamp, seq, history, chains, last, written,
                 msgListeners, crashed, lifeVars, buffer, timer, errListener>>
  /\ UNCHANGED exitVars
  /\ UNCHANGED <<poolVars, registryVars, serverVars>>

\* this.timer = setTimeout(...) in push(): a handle other than the one
\* that push() has just cleared; two handles tell a timer from its successor
NoTimer == 0
setTimeout(cleared) == IF cleared = 1 THEN 2 ELSE 1

\* ------------------------------------------------------------------------
\* Lifecycle
\* ------------------------------------------------------------------------
\* the synchronous head of spawn(): the disposed check, the running check,
\* then `await import('node-pty')`
\* The head of spawn() as it would be without the running check
SpawnHeadIgnoringRunning ==
  IF disposed THEN spawning ELSE spawning + 1

SpawnHead ==
  IF disposed \/ running THEN spawning ELSE spawning + 1

\* spawn() called from outside; on a disposed session it throws, on a running
\* one it returns, and either way nothing is changed
SpawnCall ==
  /\ ~crashed
  /\ (nextPid - 1) + spawning < MaxChildren
  /\ spawning' = SpawnHead
  /\ UNCHANGED <<config, middlewares, nextStamp, msgVars, running, disposed, pty,
                 live, nextPid, restartCount, restartPending, disposePc, buffer,
                 timer, errListener>>
  /\ UNCHANGED exitVars
  /\ UNCHANGED <<poolVars, registryVars, serverVars>>

\* the import has resolved: nodePty.spawn(...) starts the child, or throws
SpawnResume(ok) ==
  /\ ~crashed
  /\ spawning > 0
  /\ spawning' = spawning - 1
  /\ IF ok
     THEN /\ pty' = nextPid
          /\ live' = live \cup {nextPid}
          /\ nextPid' = nextPid + 1
          /\ running' = TRUE
     ELSE UNCHANGED <<pty, live, nextPid, running>>
  /\ UNCHANGED <<config, middlewares, nextStamp, msgVars, disposed, restartCount,
                 restartPending, disposePc, buffer, timer, errListener>>
  /\ UNCHANGED exitVars
  /\ UNCHANGED <<poolVars, registryVars, serverVars>>

\* the tail of dispose(): detach from the child and drop every listener
DisposeTail ==
  /\ pty' = NoPty
  /\ running' = FALSE
  /\ errListener' = FALSE
  /\ disposePc' = "done"

\* The first test of dispose() as it would be if it were missing
AlreadyDisposedNever == FALSE

\* `if (this._disposed) return`
AlreadyDisposed == disposed

\* dispose() up to its await; entering "waiting" is the kill() of the child.
\* A call on a disposed session returns at once and changes nothing.
DisposeCall ==
  /\ ~crashed
  /\ IF AlreadyDisposed
     THEN UNCHANGED sessionVars
     ELSE /\ disposed' = TRUE
          /\ buffer' = <<>>
          /\ timer' = NoTimer
          /\ IF pty # NoPty /\ running
             THEN /\ disposePc' = "waiting"
                  /\ UNCHANGED <<pty, running, errListener, msgListeners>>
             ELSE /\ DisposeTail
                  /\ msgListeners' = {}
          /\ UNCHANGED <<config, middlewares, nextStamp, seq, history, chains, last,
                         written, waits, allWaits, crashed, live, nextPid, spawning,
                         restartCount, restartPending>>
          /\ UNCHANGED exitVars
  /\ UNCHANGED <<poolVars, registryVars, serverVars>>

\* sleep(5000) wins the race in dispose(): the child has not exited
DisposeTimeout ==
  /\ ~crashed
  /\ disposePc = "waiting"
  /\ DisposeTail
  /\ msgListeners' = {}
  /\ UNCHANGED <<config, middlewares, nextStamp, seq, history, chains, last, written,
                 waits, allWaits, crashed, disposed, live, nextPid, spawning, restartCount,
                 restartPending, buffer, timer>>
  /\ UNCHANGED exitVars
  /\ UNCHANGED <<poolVars, registryVars, serverVars>>

\* the synchronous head of handleRestart(), up to `await sleep(restartDelay)`
RestartAllowed == restartCount < config.maxRestarts

\* push as it would be with `this.buffer = chunk`
ChildDataReplacing(c, chunk) ==
  /\ ~crashed
  /\ c \in live
  /\ Len(buffer) + Len(chunk) <= MaxBuf
  /\ IF \E ch \in Boundaries : EndsWith(chunk, ch)
     THEN /\ seq < MaxMsgs
          /\ StartChain(chunk, "out", FALSE)
          /\ buffer' = <<>>
          /\ timer' = NoTimer
     ELSE /\ buffer' = chunk
          /\ timer' = setTimeout(timer)
          /\ UNCHANGED msgVars
  /\ UNCHANGED <<config, middlewares, nextStamp, lifeVars, errListener>>
  /\ UNCHANGED exitVars
  /\ UNCHANGED <<poolVars, registryVars, serverVars>>

\* FlushBuffer.push, called by the onData handler of a child
ChildData(c, chunk) ==
  /\ ~crashed
  /\ c \in live
  /\ Len(buffer) + Len(chunk) <= MaxBuf
  /\ LET b == buffer \o chunk
     IN IF \E ch \in Boundaries : EndsWith(b, ch)
        THEN /\ seq < MaxMsgs
             /\ StartChain(b, "out", FALSE)
             /\ buffer' = <<>>
             /\ timer' = NoTimer
        ELSE /\ buffer' = b
             /\ timer' = setTimeout(timer)
             /\ UNCHANGED msgVars
  /\ UNCHANGED <<config, middlewares, nextStamp, lifeVars, errListener>>
  /\ UNCHANGED exitVars
  /\ UNCHANGED <<poolVars, registryVars, serverVars>>

\* the quiescence timer of the FlushBuffer fires: flush()
FlushTimer ==
  /\ ~crashed
  /\ timer # NoTimer
  /\ timer' = NoTimer
  /\ IF buffer # <<>>
     THEN /\ seq < MaxMsgs
          /\ StartChain(buffer, "out", FALSE)
          /\ buffer' = <<>>
     ELSE UNCHANGED <<buffer, msgVars>>
  /\ UNCHANGED <<config, middlewares, nextStamp, lifeVars, errListener>>
  /\ UNCHANGED exitVars
  /\ UNCHANGED <<poolVars, registryVars, serverVars>>

\* FlushBuffer.push of a chunk without a line boundary onto a buffer that
\* the chunk takes beyond MaxBuf characters: the buffer keeps growing, of
\* which the first MaxBuf characters are kept here, and the timer is cleared
\* and armed again
ChildDataBeyond(c, chunk) ==
  /\ ~crashed
  /\ c \in live
  /\ Len(buffer) + Len(chunk) > MaxBuf
  /\ ~\E ch \in Boundaries : EndsWith(chunk, ch)
  /\ buffer' = SubSeq(buffer \o chunk, 1, MaxBuf)
  /\ timer' = setTimeout(timer)
  /\ UNCHANGED msgVars
  /\ UNCHANGED <<config, middlewares, nextStamp, lifeVars, errListener>>
  /\ UNCHANGED exitVars
  /\ UNCHANGED <<poolVars, registryVars, serverVars>>

\* the onExit handler that spawn() wired to child c
ChildExit(c) ==
  /\ ~crashed
  /\ c \in live
  /\ live' = live \ {c}
  /\ timer' = NoTimer
  /\ buffer' = <<>>
  /\ IF buffer # <<>>
     THEN seq < MaxMsgs /\ StartChain(buffer, "out", disposePc = "waiting")
     ELSE /\ msgListeners' = IF disposePc = "waiting" THEN {} ELSE msgListeners
          /\ UNCHANGED <<seq, history, chains, last, written, waits, allWaits, crashed>>
  /\ IF config.autoRestart /\ ~disposed /\ RestartAllowed
     THEN /\ restartCount' = restartCount + 1
          /\ restartPending' = restartPending + 1
     ELSE UNCHANGED <<restartCount, restartPending>>
  /\ IF disposePc = "waiting"
     THEN DisposeTail
     ELSE /\ running' = FALSE
          /\ UNCHANGED <<pty, errListener, disposePc>>
  \* emit('exit') runs inside the handler, right after flush(); the message
  \* of the flush is pushed and signalled by a .then callback, which cannot
  \* run before the handler has returned
  /\ exitFlushed' = (IF buffer # <<>> THEN seq + 1 ELSE 0)
  /\ exitView' = { history[i].seq : i \in 1..Len(history) }
  /\ UNCHANGED <<config, middlewares, nextStamp, disposed, nextPid, spawning>>
  /\ UNCHANGED <<poolVars, registryVars, serverVars>>

\* sleep(restartDelay) is over: handleRestart calls spawn()
RestartFire ==
  /\ ~crashed
  /\ restartPending > 0
  /\ restartPending' = restartPending - 1
  /\ spawning' = SpawnHead
  /\ UNCHANGED <<config, middlewares, nextStamp, msgVars, running, disposed, pty,
                 live, nextPid, restartCount, disposePc, buffer, timer, errListener>>
  /\ UNCHANGED exitVars
  /\ UNCHANGED <<poolVars, registryVars, serverVars>>

\* ------------------------------------------------------------------------
\* The session
\* ------------------------------------------------------------------------
\* new PtyAgent(config): the defaults of the constructor, then use() for
\* each stage of config.middleware
Configs ==
  { [middleware |-> m, autoRestart |-> a,
     maxRestarts |-> IF r \in {Undefined, 0} THEN DefaultMaxRestarts ELSE r,
     givenMaxRestarts |-> r] :
      m \in ConfigMiddleware, a \in BOOLEAN, r \in ConfigMaxRestarts }

InitSession ==
  /\ config \in { c \in Configs : ~c.autoRestart => c.givenMaxRestarts = Undefined }
  /\ middlewares = UseAll(<<>>, config.middleware, 1)
  /\ nextStamp = Len(config.middleware) + 1
  /\ seq = 0
  /\ history = <<>>
  /\ chains = <<>>
  /\ last = NoChain
  /\ written = <<>>
  /\ running = FALSE
  /\ disposed = FALSE
  /\ pty = NoPty
  /\ live = {}
  /\ nextPid = 1
  /\ spawning = 0
  /\ restartCount = 0
  /\ restartPending = 0
  /\ disposePc = "idle"
  /\ buffer = <<>>
  /\ timer = NoTimer
  /\ waits = <<>>
  /\ allWaits = <<>>
  /\ msgListeners = {}
  /\ errListener = FALSE
  /\ crashed = FALSE
  /\ exitFlushed = 0
  /\ exitView = {}

\* ------------------------------------------------------------------------
\* The pool
\* ------------------------------------------------------------------------
Callers == 1..MaxCallers
NoAgent == 0

\* get size()
Size == Cardinality(DOMAIN agents)

\* an entry the scan of acquire() may hand out
Idle(id) == ~agents[id].inUse /\ sessions[id].running

\* get available()
Available == Cardinality({ id \in DOMAIN agents : Idle(id) })

\* creations that were started: sessions that exist and createAgent calls in flight
Creating == Cardinality({ c \in Callers : callers[c].pc = "creating" }) + warming
Started == (nextAgent - 1) + Creating

\* the next idle running entry the `for ... of this._agents.values()` loop of
\* acquire() meets after the entry `cursor`; NoAgent when the loop ends
NextCandidate(cursor) ==
  LET later == { id \in DOMAIN agents : id > cursor /\ Idle(id) }
  IN IF later = {} THEN NoAgent
     ELSE CHOOSE id \in later : \A other \in later : id <= other

\* acquire() after the scan: create a session when under the limit
UnderLimit == Size < poolConfig.maxAgents

\* acquire() from the entry after `cursor` up to its next await: the validate
\* hook of a candidate, createAgent(), or the wait queue
Scan(c, cursor) ==
  LET cand == NextCandidate(cursor)
  IN IF cand # NoAgent
     THEN /\ callers' = [callers EXCEPT ![c] = [pc |-> "validating", cand |-> cand, held |-> NoAgent]]
          /\ UNCHANGED <<waitQueue, timers>>
     ELSE IF UnderLimit
     THEN /\ Started < MaxCreated
          /\ callers' = [callers EXCEPT ![c] = [pc |-> "creating", cand |-> NoAgent, held |-> NoAgent]]
          /\ UNCHANGED <<waitQueue, timers>>
     ELSE /\ callers' = [callers EXCEPT ![c] = [pc |-> "waiting", cand |-> NoAgent, held |-> NoAgent]]
          /\ waitQueue' = Append(waitQueue, c)
          /\ timers' = timers \cup {c}

\* acquire() on a destroyed pool throws before it changes anything
Acquire(c) ==
  /\ callers[c].pc = "idle"
  /\ ~destroyed
  /\ stats.totalAcquires < MaxAcquires
  /\ stats' = [stats EXCEPT !.totalAcquires = @ + 1]
  /\ Scan(c, NoAgent)
  /\ UNCHANGED <<poolConfig, destroyed, agents, sessions, nextAgent, warming>>
  /\ UNCHANGED <<sessionVars, registryVars, serverVars>>

\* pooled.inUse = true; pooled.lastUsed = Date.now(); pooled.useCount++ on
\* the entry object the loop holds
MarkInUse(id) ==
  IF id \in DOMAIN agents
  THEN [agents EXCEPT ![id].inUse = TRUE, ![id].useCount = @ + 1,
                      ![id].expired = FALSE]
  ELSE agents

\* the validate hook has answered
Validated(c, valid) ==
  /\ callers[c].pc = "validating"
  /\ LET id == callers[c].cand
     IN IF valid
        THEN /\ agents' = MarkInUse(id)
             /\ callers' = [callers EXCEPT ![c] = [pc |-> "holding", cand |-> NoAgent, held |-> id]]
             /\ UNCHANGED <<sessions, waitQueue, timers, stats>>
        ELSE \* _destroyAgent(id), then dispose() of the session
             IF id \in DOMAIN agents
             THEN /\ agents' = [x \in DOMAIN agents \ {id} |-> agents[x]]
                  /\ stats' = [stats EXCEPT !.totalDestroyed = @ + 1]
                  /\ IF sessions[id].disposed
                     THEN UNCHANGED sessions /\ Scan(c, id)
                     ELSE IF sessions[id].running
                     THEN /\ sessions' = [sessions EXCEPT ![id].disposed = TRUE,
                                                           ![id].disposing = TRUE]
                          /\ callers' = [callers EXCEPT ![c].pc = "destroying"]
                          /\ UNCHANGED <<waitQueue, timers>>
                     ELSE /\ sessions' = [sessions EXCEPT ![id].disposed = TRUE,
                                                           ![id].hooked = FALSE]
                          /\ Scan(c, id)
             ELSE /\ UNCHANGED <<agents, sessions, stats>>
                  /\ Scan(c, id)
  /\ UNCHANGED <<poolConfig, destroyed, nextAgent, warming>>
  /\ UNCHANGED <<sessionVars, registryVars, serverVars>>

\* the tail of _createAgent: register the session createAgent() resolved with
Register(id) ==
  [x \in DOMAIN agents \cup {id} |->
     IF x = id THEN [inUse |-> FALSE, useCount |-> 0, expired |-> FALSE]
     ELSE agents[x]]

NewSession == [running |-> TRUE, disposed |-> FALSE, disposing |-> FALSE, hooked |-> TRUE]

\* createAgent() of an acquire() has resolved: _createAgent registers the
\* session and acquire() marks it in use
Created(c) ==
  /\ callers[c].pc = "creating"
  /\ agents' = [Register(nextAgent) EXCEPT ![nextAgent].inUse = TRUE,
                                          ![nextAgent].useCount = 1]
  /\ sessions' = [x \in DOMAIN sessions \cup {nextAgent} |->
                    IF x = nextAgent THEN NewSession ELSE sessions[x]]
  /\ stats' = [stats EXCEPT !.totalCreated = @ + 1]
  /\ callers' = [callers EXCEPT ![c] = [pc |-> "holding", cand |-> NoAgent, held |-> nextAgent]]
  /\ nextAgent' = nextAgent + 1
  /\ UNCHANGED <<poolConfig, destroyed, waitQueue, timers, warming>>
  /\ UNCHANGED <<sessionVars, registryVars, serverVars>>

\* createAgent() of an acquire() has failed: acquire() rejects
CreateFailed(c) ==
  /\ callers[c].pc = "creating"
  /\ callers' = [callers EXCEPT ![c].pc = "idle"]
  /\ UNCHANGED <<poolConfig, destroyed, agents, sessions, nextAgent, waitQueue, timers, warming, stats>>
  /\ UNCHANGED <<sessionVars, registryVars, serverVars>>

Min(a, b) == IF a < b THEN a ELSE b

\* warmup(count): the number of sessions to create is fixed before any is
WarmupNeeded(target) ==
  Min(target - Available, poolConfig.maxAgents - Size)

Warmup(target) ==
  /\ WarmupNeeded(target) > 0
  /\ Started + WarmupNeeded(target) <= MaxCreated
  /\ warming' = warming + WarmupNeeded(target)
  /\ UNCHANGED <<poolConfig, destroyed, agents, sessions, nextAgent, callers, waitQueue, timers, stats>>
  /\ UNCHANGED <<sessionVars, registryVars, serverVars>>

\* a createAgent() started by warmup() has resolved
Warmed ==
  /\ warming > 0
  /\ warming' = warming - 1
  /\ agents' = Register(nextAgent)
  /\ sessions' = [x \in DOMAIN sessions \cup {nextAgent} |->
                    IF x = nextAgent THEN NewSession ELSE sessions[x]]
  /\ stats' = [stats EXCEPT !.totalCreated = @ + 1]
  /\ nextAgent' = nextAgent + 1
  /\ UNCHANGED <<poolConfig, destroyed, callers, waitQueue, timers>>
  /\ UNCHANGED <<sessionVars, registryVars, serverVars>>

\* The queue operation of release() as it would be if it took the newest waiter
ShiftNewest(q) == [waiter |-> q[Len(q)], rest |-> SubSeq(q, 1, Len(q) - 1)]

\* this._waitQueue.shift(): the waiter that release() serves, and what is left
Shift(q) == [waiter |-> Head(q), rest |-> Tail(q)]

\* release(agent) by the caller that holds it.  waiter.resolve(agent) settles
\* the promise of the waiter only if it is still pending.
Release(c) ==
  /\ callers[c].pc = "holding"
  /\ LET id == callers[c].held
         freed == [callers EXCEPT ![c] = [pc |-> "idle", cand |-> NoAgent, held |-> NoAgent]]
     IN IF id \notin DOMAIN agents
        THEN \* throw new Error('Agent not in pool')
             /\ callers' = freed
             /\ UNCHANGED <<agents, waitQueue, timers>>
        ELSE IF ~agents[id].inUse
        THEN /\ callers' = freed
             /\ UNCHANGED <<agents, waitQueue, timers>>
        ELSE IF Len(waitQueue) > 0 /\ sessions[id].running
        THEN LET w == Shift(waitQueue).waiter
             IN /\ agents' = [agents EXCEPT ![id].inUse = TRUE, ![id].useCount = @ + 1,
                                             ![id].expired = FALSE]
                /\ waitQueue' = Shift(waitQueue).rest
                /\ timers' = timers \ {w}
                /\ callers' = IF freed[w].pc = "waiting"
                              THEN [freed EXCEPT ![w] = [pc |-> "holding", cand |-> NoAgent, held |-> id]]
                              ELSE freed
        ELSE /\ agents' = [agents EXCEPT ![id].inUse = FALSE, ![id].expired = FALSE]
             /\ callers' = freed
             /\ UNCHANGED <<waitQueue, timers>>
  /\ UNCHANGED <<poolConfig, destroyed, sessions, nextAgent, warming, stats>>
  /\ UNCHANGED <<sessionVars, registryVars, serverVars>>

\* The timeout callback as it would be if it left its waiter in the queue
DropWaiterNever(q, c) == q

\* the timeout callback: findIndex of its own waiter, splice
DropWaiter(q, c) == SelectSeq(q, LAMBDA w : w # c)

\* the acquireTimeout timer of a queued acquire() fires
AcquireTimeout(c) ==
  /\ c \in timers
  /\ timers' = timers \ {c}
  /\ waitQueue' = DropWaiter(waitQueue, c)
  /\ callers' = [callers EXCEPT ![c].pc = IF @ = "waiting" THEN "idle" ELSE @]
  /\ UNCHANGED <<poolConfig, destroyed, agents, sessions, nextAgent, warming, stats>>
  /\ UNCHANGED <<sessionVars, registryVars, serverVars>>

\* the child of a pooled session exits: the session stops running, the
\* pool's once('exit') listener (if still attached) drops the entry, and a
\* dispose() that waited for the exit completes (removeAllListeners)
AgentExit(id) ==
  /\ id \in DOMAIN sessions
  /\ sessions[id].running
  /\ sessions' = [sessions EXCEPT ![id].running = FALSE, ![id].disposing = FALSE,
                                  ![id].hooked = FALSE]
  /\ IF sessions[id].hooked
     THEN /\ agents' = [x \in DOMAIN agents \ {id} |-> agents[x]]
          /\ stats' = [stats EXCEPT !.totalDestroyed = @ + 1]
     ELSE UNCHANGED <<agents, stats>>
  /\ IF \E c \in Callers : callers[c].pc = "destroying" /\ callers[c].cand = id
     THEN \E c \in Callers :
            /\ callers[c].pc = "destroying" /\ callers[c].cand = id
            /\ Scan(c, id)
     ELSE UNCHANGED <<callers, waitQueue, timers>>
  /\ UNCHANGED <<poolConfig, destroyed, nextAgent, warming>>
  /\ UNCHANGED <<sessionVars, registryVars, serverVars>>

\* sleep(5000) wins the race in the dispose() that _destroyAgent awaits
DestroyTimeout(c) ==
  /\ callers[c].pc = "destroying"
  /\ sessions[callers[c].cand].disposing
  /\ sessions' = [sessions EXCEPT ![callers[c].cand].running = FALSE,
                                  ![callers[c].cand].disposing = FALSE,
                                  ![callers[c].cand].hooked = FALSE]
  /\ Scan(c, callers[c].cand)
  /\ UNCHANGED <<poolConfig, destroyed, agents, nextAgent, warming, stats>>
  /\ UNCHANGED <<sessionVars, registryVars, serverVars>>

\* agent.dispose() as _destroyAgent calls it without anyone waiting for it
\* here: a running session waits for its exit, another one is done at once
DisposeSession(sess) ==
  IF sess.disposed THEN sess
  ELSE IF sess.running THEN [sess EXCEPT !.disposed = TRUE, !.disposing = TRUE]
  ELSE [sess EXCEPT !.disposed = TRUE, !.hooked = FALSE]

\* the entries of q, as a set
Range(q) == { q[i] : i \in 1..Len(q) }

\* destroy(); a second call returns at once
Destroy ==
  /\ ~destroyed
  /\ destroyed' = TRUE
  /\ waitQueue' = <<>>
  /\ timers' = timers \ Range(waitQueue)
  /\ callers' = [c \in Callers |->
                   IF c \in Range(waitQueue) /\ callers[c].pc = "waiting"
                   THEN [pc |-> "idle", cand |-> NoAgent, held |-> NoAgent]
                   ELSE callers[c]]
  /\ agents' = <<>>
  /\ stats' = [stats EXCEPT !.totalDestroyed = @ + Size]
  /\ sessions' = [id \in DOMAIN sessions |->
                    IF id \in DOMAIN agents THEN DisposeSession(sessions[id])
                    ELSE sessions[id]]
  /\ UNCHANGED <<poolConfig, nextAgent, warming>>
  /\ UNCHANGED <<sessionVars, registryVars, serverVars>>

\* sleep(5000) wins the race in a dispose() that no acquire() waits for
DisposeElapsed(id) ==
  /\ sessions[id].disposing
  /\ \A c \in Callers : ~(callers[c].pc = "destroying" /\ callers[c].cand = id)
  /\ sessions' = [sessions EXCEPT ![id].running = FALSE, ![id].disposing = FALSE,
                                  ![id].hooked = FALSE]
  /\ UNCHANGED <<poolConfig, destroyed, agents, nextAgent, callers, waitQueue, timers,
                 warming, stats>>
  /\ UNCHANGED <<sessionVars, registryVars, serverVars>>

\* time passes: the last use of an idle entry is now more than idleTimeout ago
Expire(id) ==
  /\ id \in DOMAIN agents
  /\ ~agents[id].inUse
  /\ ~agents[id].expired
  /\ agents' = [agents EXCEPT ![id].expired = TRUE]
  /\ UNCHANGED <<poolConfig, destroyed, sessions, nextAgent, callers, waitQueue, timers,
                 warming, stats>>
  /\ UNCHANGED <<sessionVars, registryVars, serverVars>>

\* the entries one run of the interval callback collects
ToDestroy ==
  { id \in DOMAIN agents :
      /\ ~agents[id].inUse
      /\ ~(Available <= poolConfig.minIdle)
      /\ agents[id].expired }

\* the interval callback of _startIdleCheck: collect, then _destroyAgent each
Sweep ==
  /\ ~destroyed
  /\ ToDestroy # {}
  /\ agents' = [x \in DOMAIN agents \ ToDestroy |-> agents[x]]
  /\ stats' = [stats EXCEPT !.totalDestroyed = @ + Cardinality(ToDestroy)]
  /\ sessions' = [id \in DOMAIN sessions |->
                    IF id \in ToDestroy THEN DisposeSession(sessions[id])
                    ELSE sessions[id]]
  /\ UNCHANGED <<poolConfig, destroyed, nextAgent, callers, waitQueue, timers, warming>>
  /\ UNCHANGED <<sessionVars, registryVars, serverVars>>

PoolConfigs == [maxAgents : {1, 2}, minIdle : {0, 1}]

InitPool ==
  /\ poolConfig \in PoolConfigs
  /\ agents = <<>>
  /\ sessions = <<>>
  /\ nextAgent = 1
  /\ callers = [c \in Callers |-> [pc |-> "idle", cand |-> NoAgent, held |-> NoAgent]]
  /\ waitQueue = <<>>
  /\ warming = 0
  /\ stats = [totalCreated |-> 0, totalDestroyed |-> 0, totalAcquires |-> 0]
  /\ destroyed = FALSE
  /\ timers = {}

\* ------------------------------------------------------------------------
\* The adapter registry
\* ------------------------------------------------------------------------
\* what detect() looks at: the command of the configuration
Commands == { "claude", "bash" }

\* an adapter is its name and the configurations its detect() accepts
genericAdapter == [name |-> "generic", detect |-> Commands]

\* the adapters callers register: two ordinary ones that both accept
\* "claude", the exported fallback itself, and one of their own that is
\* named 'generic'
AdapterPool ==
  { [name |-> "claude", detect |-> {"claude"}],
    [name |-> "shell", detect |-> {"claude", "bash"}],
    genericAdapter,
    [name |-> "generic", detect |-> {"bash"}] }

AdapterNames == { a.name : a \in AdapterPool } \cup { "none" }

\* adapters.findIndex(a => a.name === name), 0 for -1
NameIndex(reg, name) == FindIndex({ i \in 1..Len(reg) : reg[i].name = name })

\* registerAdapter(adapter) on the array reg
registerAdapter(reg, adapter) ==
  LET genericIdx == NameIndex(reg, "generic")
      spliced == IF genericIdx # 0 THEN RemoveAt(reg, genericIdx) ELSE reg
  IN Append(Append(spliced, adapter), genericAdapter)

\* registerAdapters(adapterList)
RECURSIVE registerAdapters(_, _)
registerAdapters(reg, adapterList) ==
  IF adapterList = <<>> THEN reg
  ELSE registerAdapters(registerAdapter(reg, Head(adapterList)), Tail(adapterList))

\* unregisterAdapter(name): the array after the call and the value returned
unregisterAdapter(reg, name) ==
  IF name = "generic" THEN [reg |-> reg, returned |-> FALSE]
  ELSE LET idx == NameIndex(reg, name)
       IN IF idx # 0 THEN [reg |-> RemoveAt(reg, idx), returned |-> TRUE]
          ELSE [reg |-> reg, returned |-> FALSE]

\* findAdapter(config)
findAdapter(reg, command) ==
  LET idx == FindIndex({ i \in 1..Len(reg) : command \in reg[i].detect })
  IN IF idx # 0 THEN reg[idx] ELSE genericAdapter

RegisterAdapter(adapter) ==
  /\ Len(adapters) < MaxAdapters
  /\ adapters' = registerAdapter(adapters, adapter)
  /\ UNCHANGED <<sessionVars, poolVars, serverVars>>

RegisterAdapters(adapterList) ==
  /\ Len(adapters) + Len(adapterList) <= MaxAdapters
  /\ adapters' = registerAdapters(adapters, adapterList)
  /\ UNCHANGED <<sessionVars, poolVars, serverVars>>

UnregisterAdapter(name) ==
  /\ adapters' = unregisterAdapter(adapters, name).reg
  /\ UNCHANGED <<sessionVars, poolVars, serverVars>>

ClearAdapters ==
  /\ adapters' = <<genericAdapter>>
  /\ UNCHANGED <<sessionVars, poolVars, serverVars>>

InitRegistry == adapters = <<genericAdapter>>

\* ------------------------------------------------------------------------
\* The terminal server
\* ------------------------------------------------------------------------
Sockets == 1..MaxSockets
Ips == {"x", "y"}
NoIp == "none"

ServerConfigs == [maxConnections : {1, 2}, maxConnectionsPerIP : {1, 2}]

Fresh == [pc |-> "new", ip |-> NoIp, ipConns |-> 0]
Closed(h) == [h EXCEPT !.pc = "closed"]

\* _handleConnection up to `await this._config.authenticate(req)`: the two
\* limit checks; the socket is closed when one of them fails
HandleConnection(s, ip) ==
  /\ handlers[s].pc = "new"
  /\ LET ipConns == IF ip \in DOMAIN ipConnections THEN ipConnections[ip] ELSE s
     IN IF Cardinality(DOMAIN connections) >= serverConfig.maxConnections
        THEN handlers' = [handlers EXCEPT ![s] = Closed([@ EXCEPT !.ip = ip])]
        ELSE IF Cardinality(ipSets[ipConns]) >= serverConfig.maxConnectionsPerIP
        THEN handlers' = [handlers EXCEPT ![s] = Closed([@ EXCEPT !.ip = ip])]
        ELSE handlers' = [handlers EXCEPT
                            ![s] = [pc |-> "authenticating", ip |-> ip,
                                    ipConns |-> ipConns]]
  /\ UNCHANGED <<serverConfig, connections, ipConnections, ipSets>>
  /\ UNCHANGED <<sessionVars, poolVars, registryVars>>

\* authenticate(req) has settled: go on to `await createAgent(...)`, or
\* close the socket
Authenticated(s, authed) ==
  /\ handlers[s].pc = "authenticating"
  /\ handlers' = [handlers EXCEPT ![s] = IF authed THEN [@ EXCEPT !.pc = "creating"]
                                         ELSE Closed(@)]
  /\ UNCHANGED <<serverConfig, connections, ipConnections, ipSets>>
  /\ UNCHANGED <<sessionVars, poolVars, registryVars>>

\* createAgent(...) has settled: track the connection, or close the socket
AgentCreated(s, ok) ==
  /\ handlers[s].pc = "creating"
  /\ IF ok
     THEN /\ connections' = With(connections, s, handlers[s].ip)
          /\ ipSets' = [ipSets EXCEPT ![handlers[s].ipConns] = @ \cup {s}]
          /\ ipConnections' = With(ipConnections, handlers[s].ip, handlers[s].ipConns)
          /\ handlers' = [handlers EXCEPT ![s].pc = "open"]
     ELSE /\ handlers' = [handlers EXCEPT ![s] = Closed(@)]
          /\ UNCHANGED <<connections, ipConnections, ipSets>>
  /\ UNCHANGED serverConfig
  /\ UNCHANGED <<sessionVars, poolVars, registryVars>>

\* _cleanupConnection, called by the 'close' handler of a tracked socket
SocketClose(s) ==
  /\ handlers[s].pc = "open"
  /\ handlers' = [handlers EXCEPT ![s] = Closed(@)]
  /\ IF s \notin DOMAIN connections
     THEN UNCHANGED <<connections, ipConnections, ipSets>>
     ELSE LET ip == connections[s]
          IN /\ connections' = Without(connections, s)
             /\ IF ip \in DOMAIN ipConnections
                THEN LET ipConns == ipConnections[ip]
                     IN /\ ipSets' = [ipSets EXCEPT ![ipConns] = @ \ {s}]
                        /\ ipConnections' = IF ipSets'[ipConns] = {}
                                            THEN Without(ipConnections, ip)
                                            ELSE ipConnections
                ELSE UNCHANGED <<ipConnections, ipSets>>
  /\ UNCHANGED serverConfig
  /\ UNCHANGED <<sessionVars, poolVars, registryVars>>

InitServer ==
  /\ serverConfig \in ServerConfigs
  /\ connections = <<>>
  /\ ipConnections = <<>>
  /\ ipSets = [s \in Sockets |-> {}]
  /\ handlers = [s \in Sockets |-> Fresh]

Init == InitSession /\ InitPool /\ InitRegistry /\ InitServer

vars == <<sessionVars, poolVars, registryVars, serverVars>>

\* the server is not used
NoServer == serverConfig = [maxConnections |-> 1, maxConnectionsPerIP |-> 1]

\* the pool is not used
NoPool == poolConfig = [maxAgents |-> 1, minIdle |-> 0]

\* the session is not used
NoSession == config.middleware = <<>> /\ ~config.autoRestart

\* The middleware engine: stages added while messages are in flight, both
\* message paths, a child to write to and to read lines from.  Removal of
\* stages is exercised in SpecChain.
Next ==
  \/ \E mw \in StagePool : Use(mw)
  \/ \E data \in InData : Send(data)
  \/ \E s \in DOMAIN chains : ResumeStage(s)
  \/ Clear
  \/ OnError
  \/ SpawnCall
  \/ SpawnResume(TRUE)
  \/ \E c \in live : ChildData(c, <<"b", "n">>)

\* the constructor configuration of the engine: one stage, disabled
EngineConfigs ==
  { c \in Configs : /\ ~c.autoRestart
                    /\ c.givenMaxRestarts = Undefined
                    /\ Len(c.middleware) = 1
                    /\ ~c.middleware[1].enabled }

InitEngine == Init /\ NoServer /\ NoPool /\ config \in EngineConfigs

Spec == InitEngine /\ [][Next]_vars

\* The chain alone, from every constructor configuration
NextChain ==
  \/ \E mw \in StagePool : Use(mw)
  \/ \E name \in StageNames : Unuse(name)

InitChain == Init /\ NoServer /\ NoPool /\ ~config.autoRestart

SpecChain == InitChain /\ [][NextChain]_vars

\* The lifecycle of a session
NextLife ==
  \/ \E data \in InData : Send(data)
  \/ SpawnCall
  \/ \E ok \in BOOLEAN : SpawnResume(ok)
  \/ DisposeCall
  \/ DisposeTimeout
  \/ \E c \in live, chunk \in OutChunks : ChildData(c, chunk)
  \/ FlushTimer
  \/ \E c \in live : ChildExit(c)
  \/ RestartFire

InitLife == Init /\ NoServer /\ NoPool /\ config.middleware = <<>>

SpecLife == InitLife /\ [][NextLife]_vars

\* Waiting for output
NextWait ==
  \/ \E pattern \in Patterns : WaitFor(pattern)
  \/ \E w \in 1..Len(waits) : WaitTimeout(w)
  \/ SpawnCall
  \/ SpawnResume(TRUE)
  \/ DisposeCall
  \/ DisposeTimeout
  \/ \E c \in live, chunk \in OutChunks : ChildData(c, chunk)
  \/ FlushTimer
  \/ \E c \in live : ChildExit(c)

InitWait == Init /\ NoServer /\ NoPool /\ NoSession

SpecWait == InitWait /\ [][NextWait]_vars

\* Waits against both message paths of a session that is not disposed; the
\* child writes whole lines, one that contains the pattern and one that does not
MatchChunks == { <<"a", "n">>, <<"b", "n">> }
MatchPatterns == { <<"a">> }

NextMatch ==
  \/ \E pattern \in MatchPatterns : WaitFor(pattern)
  \/ \E w \in 1..Len(waits) : WaitTimeout(w)
  \/ \E data \in InData : Send(data)
  \/ SpawnCall
  \/ SpawnResume(TRUE)
  \/ \E c \in live, chunk \in MatchChunks : ChildData(c, chunk)

InitMatch == Init /\ NoServer /\ NoPool /\ NoSession

SpecMatch == InitMatch /\ [][NextMatch]_vars

\* The pool under concurrent callers
NextPool ==
  \/ \E c \in Callers : Acquire(c)
  \/ \E c \in Callers, valid \in BOOLEAN : Validated(c, valid)
  \/ \E c \in Callers : Created(c)
  \/ \E c \in Callers : CreateFailed(c)
  \/ \E target \in {poolConfig.minIdle, 1, 2} : Warmup(target)
  \/ Warmed
  \/ \E c \in Callers : Release(c)
  \/ \E c \in Callers : AcquireTimeout(c)
  \/ \E id \in DOMAIN sessions : AgentExit(id)
  \/ \E c \in Callers : DestroyTimeout(c)
  \/ Destroy
  \/ \E id \in DOMAIN sessions : DisposeElapsed(id)
  \/ \E id \in DOMAIN agents : Expire(id)
  \/ Sweep

InitPoolOnly == Init /\ NoServer /\ NoSession

SpecPool == InitPoolOnly /\ [][NextPool]_vars

\* The wait queue: callers that acquire, hold, release, time out, and destroy()
NextQueue ==
  \/ \E c \in Callers : Acquire(c)
  \/ \E c \in Callers : Validated(c, TRUE)
  \/ \E c \in Callers : Created(c)
  \/ \E c \in Callers : Release(c)
  \/ \E c \in Callers : AcquireTimeout(c)
  \/ \E id \in DOMAIN sessions : AgentExit(id)
  \/ Destroy

InitQueue == Init /\ NoServer /\ NoSession

SpecQueue == InitQueue /\ [][NextQueue]_vars

\* Validation: callers that acquire and release while the validate hook
\* answers either way; nothing else disposes a session here
NextValidate ==
  \/ \E c \in Callers : Acquire(c)
  \/ \E c \in Callers, valid \in BOOLEAN : Validated(c, valid)
  \/ \E c \in Callers : Created(c)
  \/ \E c \in Callers : Release(c)
  \/ \E c \in Callers : DestroyTimeout(c)

InitValidate == Init /\ NoServer /\ NoSession

SpecValidate == InitValidate /\ [][NextValidate]_vars

\* The adapter registry
NextRegistry ==
  \/ \E adapter \in AdapterPool : RegisterAdapter(adapter)
  \/ \E first \in AdapterPool, second \in AdapterPool :
       RegisterAdapters(<<first, second>>)
  \/ \E name \in AdapterNames : UnregisterAdapter(name)
  \/ ClearAdapters

InitRegistryOnly == Init /\ NoServer /\ NoPool /\ NoSession

SpecRegistry == InitRegistryOnly /\ [][NextRegistry]_vars

\* The server alone: connection attempts from two addresses that overlap
\* in any way, authentication and session creation that succeed or fail,
\* sockets that close
NextServer ==
  \/ \E s \in Sockets, ip \in Ips : HandleConnection(s, ip)
  \/ \E s \in Sockets, authed \in BOOLEAN : Authenticated(s, authed)
  \/ \E s \in Sockets, ok \in BOOLEAN : AgentCreated(s, ok)
  \/ \E s \in Sockets : SocketClose(s)

InitServerOnly == Init /\ NoPool /\ NoSession

SpecServer == InitServerOnly /\ [][NextServer]_vars

\* Sequence numbers: both message paths of a session that restarts its
\* child and whose history is cleared
NextSeq ==
  \/ \E data \in InData : Send(data)
  \/ Clear
  \/ SpawnCall
  \/ SpawnResume(TRUE)
  \/ \E c \in live : ChildData(c, <<"b", "n">>)
  \/ \E c \in live : ChildExit(c)
  \/ RestartFire

InitSeq == Init /\ NoServer /\ NoPool /\ config.middleware = <<>> /\ config.autoRestart

SpecSeq == InitSeq /\ [][NextSeq]_vars

\* send() alone: stages added while messages are in flight, and a child to
\* write to
NextSend ==
  \/ \E mw \in StagePool : Use(mw)
  \/ \E data \in InData : Send(data)
  \/ \E s \in DOMAIN chains : ResumeStage(s)
  \/ SpawnCall
  \/ SpawnResume(TRUE)

InitSend == Init /\ NoServer /\ NoPool /\ config \in EngineConfigs

SpecSend == InitSend /\ [][NextSend]_vars

\* Raw writes next to send(): write() from outside and ctx.send from a
\* suspended stage, before a child runs, while it runs and after it exited
WriteConfigs ==
  { c \in Configs : /\ ~c.autoRestart
                    /\ c.givenMaxRestarts = Undefined
                    /\ Len(c.middleware) = 1
                    /\ c.middleware[1].name \in {"xform", "slow"} }

NextWrite ==
  \/ \E data \in InData : Send(data)
  \/ \E s \in DOMAIN chains : ResumeStage(s)
  \/ \E data \in RawData : Write(data)
  \/ \E s \in DOMAIN chains : \E data \in RawData : ContextSend(s, data)
  \/ SpawnCall
  \/ SpawnResume(TRUE)
  \/ \E c \in live : ChildExit(c)

InitWrite == Init /\ NoServer /\ NoPool /\ config \in WriteConfigs

SpecWrite == InitWrite /\ [][NextWrite]_vars

\* sendSecret next to send(), with a stage that rewrites and a stage that
\* suspends, on a session that runs or does not
NextSecret ==
  \/ \E data \in InData : Send(data)
  \/ \E s \in DOMAIN chains : ResumeStage(s)
  \/ \E data \in SecretData : SendSecret(data)
  \/ SpawnCall
  \/ SpawnResume(TRUE)
  \/ \E c \in live : ChildExit(c)

InitSecret == Init /\ NoServer /\ NoPool /\ config \in WriteConfigs

SpecSecret == InitSecret /\ [][NextSecret]_vars

\* waitForAll on a running session: the child writes whole lines, the caller
\* sends input, and the timeout may elapse at any moment
AllChunks == {<<"a", "n">>, <<"b", "n">>}
AllPatterns == { << <<"a">>, <<"b">> >> }

NextWaitAll ==
  \/ SpawnCall
  \/ SpawnResume(TRUE)
  \/ \E c \in live : \E chunk \in AllChunks : ChildData(c, chunk)
  \/ \E data \in InData : Send(data)
  \/ \E ps \in AllPatterns : WaitForAll(ps)
  \/ \E k \in DOMAIN allWaits : WaitAllTimeout(k)

InitWaitAll == Init /\ NoServer /\ NoPool /\ NoSession

SpecWaitAll == InitWaitAll /\ [][NextWaitAll]_vars

\* spawn() alone: calls from outside and from handleRestart(), imports that
\* fail, children that exit, dispose()
NextSpawn ==
  \/ SpawnCall
  \/ \E ok \in BOOLEAN : SpawnResume(ok)
  \/ \E c \in live : ChildExit(c)
  \/ RestartFire
  \/ DisposeCall
  \/ DisposeTimeout

InitSpawn == Init /\ NoServer /\ NoPool /\ config.middleware = <<>>

SpecSpawn == InitSpawn /\ [][NextSpawn]_vars

\* dispose() at any moment of a session's life, once or several times:
\* before a spawn, during one, while the child runs, after it has exited,
\* with listeners attached before and after
DisposeChunks == {<<"a">>}

NextDispose ==
  \/ SpawnCall
  \/ SpawnResume(TRUE)
  \/ \E c \in live : \E chunk \in DisposeChunks : ChildData(c, chunk)
  \/ \E c \in live : ChildExit(c)
  \/ \E p \in MatchPatterns : WaitFor(p)
  \/ DisposeCall
  \/ DisposeTimeout

InitDispose == Init /\ NoServer /\ NoPool /\ NoSession

SpecDispose == InitDispose /\ [][NextDispose]_vars

\* Waits on a session that exits or is disposed.  The timer that withTimeout
\* arms is never cleared, so it fires: weak fairness for the timeout of
\* every wait.
NextSettle ==
  \/ \E pattern \in MatchPatterns : WaitFor(pattern)
  \/ \E w \in 1..Len(waits) : WaitTimeout(w)
  \/ SpawnCall
  \/ SpawnResume(TRUE)
  \/ \E c \in live : ChildData(c, <<"a", "n">>)
  \/ \E c \in live : ChildExit(c)
  \/ DisposeCall
  \/ DisposeTimeout

InitSettle == Init /\ NoServer /\ NoPool /\ NoSession

SpecSettle ==
  /\ InitSettle
  /\ [][NextSettle]_vars
  /\ \A w \in 1..MaxWaits : WF_vars(WaitTimeout(w))

\* Several waits at a time on a session whose child writes whole lines: one
\* that contains the first pattern, one that contains both
WaitChunks == { <<"a", "n">>, <<"a", "b", "n">> }

NextWaits ==
  \/ \E pattern \in Patterns : WaitFor(pattern)
  \/ \E w \in 1..Len(waits) : WaitTimeout(w)
  \/ SpawnCall
  \/ SpawnResume(TRUE)
  \/ \E c \in live, chunk \in WaitChunks : ChildData(c, chunk)

InitWaits == Init /\ NoServer /\ NoPool /\ NoSession

SpecWaits == InitWaits /\ [][NextWaits]_vars

\* The flush buffer of a session: chunks that end a line or not, the
\* quiescence timer, the exit of the child, dispose()
FlushChunks == { <<"a">>, <<"b", "n">>, <<"r">> }

NextFlush ==
  \/ SpawnCall
  \/ SpawnResume(TRUE)
  \/ \E c \in live, chunk \in FlushChunks : ChildData(c, chunk)
  \/ FlushTimer
  \/ \E c \in live : ChildExit(c)
  \/ DisposeCall

InitFlush == Init /\ NoServer /\ NoPool /\ NoSession

SpecFlush == InitFlush /\ [][NextFlush]_vars

\* The buffer without clear(): pushes, timer expiries, and the flush() of
\* the onExit handler
ConserveChunks == {<<"a">>, <<"b", "n">>}

NextConserve ==
  \/ SpawnCall
  \/ SpawnResume(TRUE)
  \/ \E c \in live, chunk \in ConserveChunks : ChildData(c, chunk)
  \/ FlushTimer
  \/ \E c \in live : ChildExit(c)

InitConserve == Init /\ NoServer /\ NoPool /\ NoSession

SpecConserve == InitConserve /\ [][NextConserve]_vars

\* A child that may go on writing without ever ending a line, on a session
\* that is not disposed.  A timer that is armed fires unless push() clears
\* it first: weak fairness for each timer handle on its own, since a push()
\* replaces the armed timer by another one.
NextStream ==
  \/ SpawnCall
  \/ SpawnResume(TRUE)
  \/ \E c \in live, chunk \in FlushChunks : ChildData(c, chunk)
  \/ \E c \in live, chunk \in FlushChunks : ChildDataBeyond(c, chunk)
  \/ FlushTimer
  \/ \E c \in live : ChildExit(c)

InitStream == Init /\ NoServer /\ NoPool /\ NoSession

SpecStream ==
  /\ InitStream
  /\ [][NextStream]_vars
  /\ \A handle \in {1, 2} : WF_vars(FlushTimer /\ timer = handle)

\* ------------------------------------------------------------------------
\* Properties
\* ------------------------------------------------------------------------
\* a runMiddleware call settles in this step, as the chain record `last'`
Settles == last' # last

\* C1: a message whose chain was cut short by a stage that returned without
\* calling next is not appended to history and not forwarded to the child.
C1_DroppedIsDiscarded ==
  [][(Settles /\ last'.outcome = "dropped")
       => (history' = history /\ written' = written)]_vars

\* C2: read in list order, the sequence numbers in history go up by exactly
\* one from each message to the next.
C2_HistoryContiguous ==
  \A i \in 1..(Len(history) - 1) : history[i + 1].seq = history[i].seq + 1

\* C3: the pool never holds more than maxAgents sessions.
C3_PoolWithinCapacity == Size <= poolConfig.maxAgents

\* C4: no two callers hold the same pooled session at the same time.
C4_ExclusiveHold ==
  \A c1 \in Callers, c2 \in Callers :
    (c1 # c2 /\ callers[c1].pc = "holding" /\ callers[c2].pc = "holding")
      => callers[c1].held # callers[c2].held

\* C5: a waitFor that has settled, by a match or by its timeout, has no
\* message listener attached any more.
C5_SettledWaitDetached ==
  \A w \in 1..Len(waits) : waits[w].status # "pending" => w \notin msgListeners

\* C6: when a stage throws, the error is emitted, the chain call still
\* completes, running state and chain are unchanged and the session goes on.
C6_ThrowIsIsolated ==
  [][(Settles /\ last'.outcome = "threw")
       => /\ last'.errors >= 1
          /\ last'.status = "done"
          /\ running' = running
          /\ middlewares' = middlewares
          /\ ~crashed']_vars

\* C7: once dispose() was called the session never becomes running again and
\* no new child is started for it.
C7_DisposedIsTerminal ==
  [][disposed => /\ disposed'
                 /\ (running' => running)
                 /\ nextPid' = nextPid]_vars

\* the stage kinds whose handler calls next
ProceedKinds == {"mutate", "slow"}

EveryStageProceeds(c) ==
  \A i \in 1..Len(c.applicable) : c.applicable[i].fn \in ProceedKinds

RECURSIVE Repeat(_, _)
Repeat(ch, n) == IF n = 0 THEN <<>> ELSE <<ch>> \o Repeat(ch, n - 1)

\* the content a chain whose stages all proceed leaves in the message
MutatedRaw(c) ==
  c.data \o Repeat("m", Len(SelectSeq(c.applicable, LAMBDA mw : mw.fn = "mutate")))

\* C8: when every applicable stage calls next, the settling of the chain
\* appends exactly one message to history, the message as the chain mutated
\* it; history never grows in any other step.
C8_ProceedAppendsOne ==
  [][/\ (Settles /\ EveryStageProceeds(last'))
          => /\ history' = Append(history, last'.msg)
             /\ last'.msg.raw = MutatedRaw(last')
             /\ last'.msg.text = stripAnsi(last'.data)
     /\ ~Settles => Len(history') <= Len(history)]_vars

C8_Witness ==
  /\ last.status = "done"
  /\ Len(last.applicable) = 2
  /\ EveryStageProceeds(last)
  /\ last.msg.raw # last.data
  /\ Len(history) = 2
  /\ history[2] = last.msg

\* a stage applies to a message of direction dir
Matches(mw, dir) == mw.enabled /\ (mw.direction = dir \/ mw.direction = "both")

\* the runMiddleware calls in progress and the one that settled last
RunRecords == { last } \cup { chains[s] : s \in DOMAIN chains }

\* the record of the runMiddleware call a step has started
StartedRecord(s, newChains, newLast) ==
  IF s \in DOMAIN newChains THEN newChains[s] ELSE newLast

\* C9: the stages run for a message are enabled stages of its direction (or
\* `both`), taken from the chain as it is when the message is created, run
\* in ascending priority order, and all of them are run when none cuts the
\* chain short.
C9_RunsApplicableInOrder ==
  [][/\ seq' = seq + 1
          => LET c == StartedRecord(seq', chains', last')
             IN c.applicable =
                  SelectSeq(middlewares, LAMBDA mw : Matches(mw, c.msg.direction))
     /\ \A c \in RunRecords' :
          c.status # "none"
            => /\ \A i \in 1..Len(c.ran) : Matches(c.ran[i], c.msg.direction)
               /\ \A i \in 1..Len(c.ran), j \in 1..Len(c.ran) :
                    i < j => Prio(c.ran[i]) <= Prio(c.ran[j])
               /\ c.ran = SubSeq(c.applicable, 1, Len(c.ran))
               /\ (c.status = "done" /\ EveryStageProceeds(c))
                    => c.ran = c.applicable]_vars

C9_Witness ==
  /\ last.status = "done"
  /\ Len(last.ran) = 2
  /\ Prio(last.ran[1]) < Prio(last.ran[2])
  /\ Len(middlewares) = 3
  /\ ~middlewares[1].enabled
  /\ \A i \in 1..2 : last.ran[i] = middlewares[i + 1]

\* C10: the chain is in ascending priority order (a missing priority counts
\* as 100) and stages of equal priority are in the order of their use() calls.
C10_ChainSorted ==
  \A i \in 1..Len(middlewares), j \in 1..Len(middlewares) :
    i < j => \/ Prio(middlewares[i]) < Prio(middlewares[j])
             \/ /\ Prio(middlewares[i]) = Prio(middlewares[j])
                /\ middlewares[i].stamp < middlewares[j].stamp

\* three stages are left of four use() calls (two of them made by the
\* constructor, one undone by unuse), a stage without priority sits before a
\* later stage of priority 100, and a later stage sits before an earlier one
C10_Witness ==
  /\ Len(config.middleware) = 2
  /\ nextStamp = 5
  /\ Len(middlewares) = 3
  /\ \E i \in 1..2 :
       /\ middlewares[i].priority = NoPriority
       /\ middlewares[i + 1].priority = DefaultPriority
  /\ \E i \in 1..2 : middlewares[i].stamp > middlewares[i + 1].stamp
  /\ \E i \in 1..3 : middlewares[i].stamp <= 2

\* the numbers of the outbound messages in history h that match the pattern
\* of the wait record r and were created after the call
OutMatches(h, r) ==
  { h[i].seq : i \in { k \in 1..Len(h) :
                         /\ h[k].direction = "out"
                         /\ matchPattern(h[k].text, r.pattern)
                         /\ h[k].seq > r.since } }

\* C11: a wait resolves with the first outbound message signalled after the
\* call whose clean text contains the pattern; inbound and non-matching
\* messages leave it pending; it fails only by its timeout, and only when no
\* such message was signalled; a settled wait never changes again.
C11_ResolvesWithFirstMatch ==
  [][/\ \A w \in 1..Len(waits') :
          LET r == waits'[w]
              hits == OutMatches(history', r)
          IN /\ r.status = "resolved"
                  => /\ hits # {}
                     /\ r.by \in hits
                     /\ \A n \in hits : r.by <= n
             /\ (r.status = "pending" /\ w \in msgListeners') => hits = {}
             /\ r.status = "rejected"
                  => /\ w <= Len(waits)
                     /\ \/ waits[w].status = "rejected"
                        \/ /\ waits[w].status = "pending"
                           /\ OutMatches(history, waits[w]) = {}
     /\ \A w \in 1..Len(waits) :
          waits[w].status # "pending" => waits'[w] = waits[w]]_vars

\* a wait made before any message passed over a matching inbound message and
\* resolved with the outbound message after it
C11_Witness ==
  /\ Len(waits) >= 1
  /\ waits[1].status = "resolved"
  /\ waits[1].since = 0
  /\ waits[1].by = 2
  /\ Len(history) = 2
  /\ history[1].direction = "in"
  /\ matchPattern(history[1].text, waits[1].pattern)
  /\ history[2].direction = "out"

\* C12: the message made of the output that the exit handler flushed is in
\* history when the exit signal is emitted.
C12_FlushedBeforeExit ==
  exitFlushed # 0 => exitFlushed \in exitView

\* the maxRestarts the caller configured; the documented default when none
ConfiguredMaxRestarts ==
  IF config.givenMaxRestarts = Undefined THEN DefaultMaxRestarts
  ELSE config.givenMaxRestarts

\* C13: the number of restart attempts never exceeds the configured
\* maxRestarts, 0 included.
C13_RestartsBounded ==
  restartCount <= ConfiguredMaxRestarts

\* C14: the outbound messages in history are in the order of their flushes,
\* which is ascending sequence-number order.
C14_OutboundInFlushOrder ==
  \A i \in 1..Len(history), j \in 1..Len(history) :
    (i < j /\ history[i].direction = "out" /\ history[j].direction = "out")
      => history[i].seq < history[j].seq

\* C15: at most one middleware chain execution is in progress.
C15_OneChainAtATime ==
  Cardinality(DOMAIN chains) <= 1

\* C16: after dispose() a send is refused: no inbound message is taken
\* through the chain and recorded as sent.
C16_SendAfterDisposeRefused ==
  [][disposed => ~(/\ seq' = seq + 1
                   /\ last'.status = "done"
                   /\ last'.msg.seq = seq'
                   /\ last'.msg.direction = "in"
                   /\ history' = Append(history, last'.msg))]_vars

\* C17: with callers queued, release of a running session gives that session
\* to the oldest waiter, in use again, its useCount one higher, the waiter's
\* timer cancelled, and leaves the other waiters in their order.
C17_ReleaseServesOldest ==
  [][\A c \in Callers :
       LET id == callers[c].held
       IN (/\ callers[c].pc = "holding"
           /\ callers'[c].pc = "idle"
           /\ id \in DOMAIN agents
           /\ sessions[id].running
           /\ Len(waitQueue) > 0)
            => LET w == Head(waitQueue)
               IN /\ callers'[w] = [pc |-> "holding", cand |-> NoAgent, held |-> id]
                  /\ agents'[id].inUse
                  /\ agents'[id].useCount = agents[id].useCount + 1
                  /\ w \notin timers'
                  /\ waitQueue' = Tail(waitQueue)
                  /\ \A o \in Callers \ {c, w} : callers'[o] = callers[o]]_vars

\* two callers were queued behind the holder of the only session; the older
\* one holds it now, on its second use, and the younger one is still queued
C17_Witness ==
  /\ poolConfig.maxAgents = 1
  /\ stats.totalCreated = 1
  /\ stats.totalAcquires = 3
  /\ Len(waitQueue) = 1
  /\ \E h \in Callers :
       /\ callers[h].pc = "holding"
       /\ callers[h].held \in DOMAIN agents
       /\ agents[callers[h].held].inUse
       /\ agents[callers[h].held].useCount = 2
  /\ \E r \in Callers : callers[r].pc = "idle"

\* C18: a queued acquire() is in the queue, with its timer armed, exactly
\* while its promise is pending; it leaves that state once, served by a
\* release (as the head of the queue, holding a session marked in use), by
\* its timeout (removed from the queue, no entry touched) or by destroy();
\* nobody comes to hold a session except out of a pending acquire().
C18_QueuedSettlesOnce ==
  [][/\ \A c \in Callers : callers'[c].pc = "waiting" <=> c \in Range(waitQueue')
     /\ \A i \in 1..Len(waitQueue'), j \in 1..Len(waitQueue') :
          i # j => waitQueue'[i] # waitQueue'[j]
     /\ timers' = Range(waitQueue')
     /\ \A c \in Callers :
          (callers[c].pc = "waiting" /\ callers'[c].pc # "waiting")
            => \/ /\ callers'[c].pc = "holding"
                  /\ c = Head(waitQueue)
                  /\ callers'[c].held \in DOMAIN agents'
                  /\ agents'[callers'[c].held].inUse
                  /\ \E r \in Callers : callers[r].pc = "holding" /\ callers'[r].pc = "idle"
               \/ /\ callers'[c].pc = "idle"
                  /\ destroyed' = destroyed
                  /\ agents' = agents
                  /\ c \notin Range(waitQueue')
               \/ /\ callers'[c].pc = "idle"
                  /\ ~destroyed /\ destroyed'
                  /\ waitQueue' = <<>>
     /\ \A c \in Callers :
          (callers'[c].pc = "holding" /\ callers[c].pc # "holding")
            => callers[c].pc \in {"waiting", "validating", "creating"}]_vars

\* the second acquire() timed out in the queue; the only session was then
\* released and stays idle, on its first use
C18_Witness ==
  /\ poolConfig.maxAgents = 1
  /\ ~destroyed
  /\ stats.totalCreated = 1
  /\ stats.totalAcquires = 2
  /\ waitQueue = <<>>
  /\ \A c \in Callers : callers[c].pc = "idle"
  /\ \E id \in DOMAIN agents : ~agents[id].inUse /\ agents[id].useCount = 1

\* destroy() has been called and every dispose() it started is over
DestroyCompleted ==
  destroyed /\ \A id \in DOMAIN sessions : ~sessions[id].disposing

\* C19: after destroy() no caller comes to hold a session, and once destroy()
\* has completed the pool holds no session.
C19_DestroyedPoolStaysEmpty ==
  [][destroyed
       => /\ \A c \in Callers : callers'[c].pc = "holding" => callers[c].pc = "holding"
          /\ DestroyCompleted' => Size' = 0]_vars

\* the entries that a step of the idle sweep has destroyed: they left the
\* pool, their dispose() was started by the step, no caller moved
Swept ==
  IF callers' = callers /\ ~destroyed'
  THEN { id \in DOMAIN agents \ DOMAIN agents' :
           sessions'[id].disposed /\ ~sessions[id].disposed }
  ELSE {}

\* C20: a sweep destroys only expired entries that are not in use, and it
\* does not take the available entries below minIdle.
C20_SweepKeepsMinIdle ==
  [][Swept # {}
       => /\ \A id \in Swept : ~agents[id].inUse /\ agents[id].expired
          /\ Available >= poolConfig.minIdle
               => Available' >= poolConfig.minIdle]_vars

\* C21: no acquire() returns a session that failed validation: a caller
\* that comes to hold a session holds one that was not disposed (only a
\* failed validation disposes a session in SpecValidate).
C21_FailedNeverReturned ==
  [][\A c \in Callers :
       (callers'[c].pc = "holding" /\ callers[c].pc # "holding")
         => ~sessions'[callers'[c].held].disposed]_vars

\* C22: the registry holds the fallback adapter `generic` exactly once, and
\* it is the last element.
C22_GenericOnceAndLast ==
  /\ Cardinality({ i \in 1..Len(adapters) : adapters[i] = genericAdapter }) = 1
  /\ adapters[Len(adapters)] = genericAdapter

\* the adapters other than the fallback, in the order of their registration
Registered == SelectSeq(adapters, LAMBDA a : a # genericAdapter)

\* C23: findAdapter returns the adapter registered earliest among those
\* (other than the fallback) whose detect accepts the configuration, and the
\* fallback only when there is none.
C23_FindsEarliestMatch ==
  \A command \in Commands :
    LET hits == { i \in 1..Len(Registered) : command \in Registered[i].detect }
    IN findAdapter(adapters, command)
         = IF hits = {} THEN genericAdapter ELSE Registered[FindIndex(hits)]

\* C24: the counter starts at 0, so the first message is number 1; every
\* step either leaves it alone and creates no message, or creates one
\* message whose number is one more than the last; nothing resets it.
C24_SeqIncrementsByOne ==
  /\ seq = 0
  /\ [][\/ seq' = seq /\ last' = last
        \/ /\ seq' = seq + 1
           /\ last' # last
           /\ last'.msg.seq = seq'
           /\ \A i \in 1..Len(history) : history[i].seq < seq']_vars

\* the child wrote line 1, the history was cleared, the child exited and was
\* restarted, and the line of the second child is message 2
C24_Witness ==
  /\ restartCount = 1
  /\ live = {2}
  /\ Len(history) = 1
  /\ history[1].seq = 2
  /\ history[1].direction = "out"

\* the content a chain leaves in the message: one mark per mutating stage
\* that ran
RawAfter(c) ==
  c.data \o Repeat("m", Len(SelectSeq(c.ran, LAMBDA mw : mw.fn = "mutate")))

\* C25: send() numbers the message when it is called, runs the stages of
\* direction `in` or `both`, and when the chain has resolved it writes the
\* content as the chain left it to the running child and then appends the
\* message to history; between the call and that moment nothing of the
\* message is written or recorded.
C25_SendWritesMutatedThenRecords ==
  [][/\ (Settles /\ last'.msg.direction = "in" /\ last'.status = "done")
          => /\ IF last'.msg.seq \in DOMAIN chains
                THEN seq' = seq
                ELSE seq' = seq + 1 /\ last'.msg.seq = seq'
             /\ \A i \in 1..Len(last'.ran) : last'.ran[i].direction \in {"in", "both"}
             /\ last'.msg.raw = RawAfter(last')
             /\ written' = IF pty # NoPty /\ running
                           THEN Append(written, last'.msg.raw)
                           ELSE written
             /\ history' = Append(history, last'.msg)
     /\ (seq' = seq + 1 /\ seq' \in DOMAIN chains')
          => written' = written /\ history' = history
     /\ ~Settles => written' = written]_vars

\* a send() to a running child went through a stage that changed the
\* content: the child received the changed content, and the message is the
\* last of history
C25_Witness ==
  /\ last.status = "done"
  /\ last.msg.direction = "in"
  /\ last.msg.raw # last.data
  /\ running
  /\ written # <<>>
  /\ written[Len(written)] = last.msg.raw
  /\ history # <<>>
  /\ history[Len(history)] = last.msg

\* s ends a line
EndsLine(s) == Len(s) > 0 /\ s[Len(s)] \in {"n", "r"}

\* C26: a push flushes at once exactly when the accumulated buffer ends a
\* line, and the message is that whole buffer; otherwise the chunk stays in
\* the buffer with the timer armed anew, and a flush without a push (the
\* timer, or the exit of the child) takes the whole buffer as one message;
\* clear() empties the buffer and disarms the timer, so nothing pushed before
\* it is flushed later.
C26_FlushOnLineEndOrQuiescence ==
  [][/\ ~EndsLine(buffer')
     /\ (timer' # NoTimer) <=> (buffer' # <<>>)
     /\ seq' = seq + 1
          => LET flushed == last'.msg.raw
             IN /\ buffer' = <<>>
                /\ \/ /\ flushed = buffer
                      /\ live' = live => timer # NoTimer
                   \/ /\ live' = live
                      /\ EndsLine(flushed)
                      /\ \E chunk \in FlushChunks : flushed = buffer \o chunk
     /\ (seq' = seq /\ buffer' # buffer)
          => \/ buffer' = <<>> /\ disposed' /\ ~disposed
             \/ /\ \E chunk \in FlushChunks : buffer' = buffer \o chunk
                /\ timer' # timer]_vars

\* the first child wrote "a", which the timer flushed, then "a" and "\r",
\* which the push of "\r" flushed as one message
C26_Witness ==
  /\ live = {1}
  /\ nextPid = 2
  /\ buffer = <<>>
  /\ Len(history) = 2
  /\ history[1].raw = <<"a">>
  /\ history[2].raw = <<"a", "r">>

\* C27: whatever is in the flush buffer is eventually flushed (while the
\* session can still create a message).
C27_PushedIsFlushed ==
  [](buffer # <<>> /\ seq < MaxMsgs => <>(buffer = <<>>))

\* the wait w is pending and its handler is attached
Listening(w) == waits[w].status = "pending" /\ w \in msgListeners

\* C28: an outbound message is tested against every pending wait: each one
\* whose pattern it contains resolves with it, all in the same step, and
\* every other one stays as it is, handler included; a step without a
\* message changes at most one wait and detaches the handler of none.
C28_WaitsAreIndependent ==
  [][/\ seq' = seq + 1
          => \A w \in 1..Len(waits) :
               IF Listening(w) /\ last'.msg.direction = "out"
                    /\ matchPattern(last'.msg.text, waits[w].pattern)
               THEN /\ waits'[w] = [waits[w] EXCEPT !.status = "resolved", !.by = seq']
                    /\ w \notin msgListeners'
               ELSE /\ waits'[w] = waits[w]
                    /\ Listening(w) => w \in msgListeners'
     /\ seq' = seq
          => /\ msgListeners \subseteq msgListeners'
             /\ \A w \in 1..Len(waits), other \in 1..Len(waits) :
                  (w # other /\ waits'[w] # waits[w]) => waits'[other] = waits[other]]_vars

\* two waits with different patterns were pending and one line resolved both
C28_Witness ==
  /\ Len(waits) = 2
  /\ waits[1].pattern # waits[2].pattern
  /\ waits[1].status = "resolved"
  /\ waits[2].status = "resolved"
  /\ waits[1].by = waits[2].by

\* the wait w exists and its promise is pending
Pending(w) == w \in DOMAIN waits /\ waits[w].status = "pending"

\* C29: every wait eventually settles, whether the child exits or the
\* session is disposed meanwhile; a wait fails only by its timeout, and a
\* wait whose handler dispose() has removed stays without a handler and is
\* never resolved: it fails by its timeout.
C29_EveryWaitSettles ==
  /\ \A w \in 1..MaxWaits : [](Pending(w) => <>(~Pending(w)))
  /\ [][\A w \in 1..Len(waits) :
          /\ (Pending(w) /\ w \notin msgListeners)
               => waits'[w].status # "resolved" /\ w \notin msgListeners'
          /\ (Pending(w) /\ waits'[w].status = "rejected")
               => waits' = [waits EXCEPT ![w].status = "rejected"]
          /\ ~Pending(w) => waits'[w] = waits[w]]_vars

\* dispose() has completed and removed the handler of a wait that was made
\* before any message and never resolved; the wait has failed by its timeout
C29_Witness ==
  /\ disposePc = "done"
  /\ Len(waits) >= 1
  /\ waits[1].status = "rejected"
  /\ 1 \notin msgListeners
  /\ waits[1].since = 0
  /\ nextPid > 1
  /\ history = <<>>

\* C30: no spawn() gets past its head on a session that is disposed or
\* running, so it starts no child and leaves the pty as it is; a child is
\* only started by a spawn() that got past its head; a spawn() whose import
\* or nodePty.spawn fails starts nothing and does not mark the session running.
C30_SpawnGuards ==
  [][/\ (disposed \/ running) => spawning' <= spawning
     /\ spawning' > spawning
          => nextPid' = nextPid /\ pty' = pty /\ running' = running /\ live' = live
     /\ nextPid' # nextPid
          => /\ spawning' = spawning - 1
             /\ nextPid' = nextPid + 1
             /\ running' /\ pty' = nextPid /\ live' = live \cup {nextPid}
     /\ (spawning' = spawning - 1 /\ nextPid' = nextPid)
          => pty' = pty /\ running' = running /\ live' = live]_vars

\* the first child exited and a restart was scheduled; the session runs its
\* second child, and the spawn() of the restart has come and gone without a
\* third
C30_Witness ==
  /\ running
  /\ ~disposed
  /\ restartCount = 1
  /\ restartPending = 0
  /\ spawning = 0
  /\ live = {2}
  /\ nextPid = 3


C32_WriteBypassesChain ==
  [][/\ ((\E d \in RawData : written' = Append(written, d)) =>
            /\ pty # NoPty /\ running
            /\ seq' = seq
            /\ history' = history
            /\ chains' = chains
            /\ last' = last)
     /\ (~(pty # NoPty /\ running) => written' = written)]_vars

\* the child has received raw content while a stage was suspended and after
\* a message had been sent
C32_Witness ==
  /\ \E i \in DOMAIN written : written[i] \in RawData
  /\ \E i \in DOMAIN written : written[i] \notin RawData
  /\ DOMAIN chains # {}
  /\ history # <<>>


\* the outbound messages in the history that were signalled after the call
\* r and contain its i-th pattern
AllMatches(r, i) ==
  { m \in Range(history) : /\ m.direction = "out"
                           /\ m.seq > r.since
                           /\ Includes(m.text, r.patterns[i]) }

\* C33: waitForAll resolves only once every pattern has been matched by an
\* outbound message signalled after the call, in any order, each pattern
\* keeping the first message that matched it; it resolves with the message
\* that completes the set, and it fails with Timeout only while some
\* pattern is still unmatched.
C33_WaitForAllNeedsEveryPattern ==
  [][\A k \in DOMAIN allWaits' :
       LET r == allWaits'[k]
       IN /\ r.status = "resolved" =>
               \A i \in DOMAIN r.patterns :
                 \E m \in { x \in Range(history') : x.direction = "out"
                                                    /\ x.seq > r.since
                                                    /\ Includes(x.text, r.patterns[i]) } :
                   /\ r.got[i] = m.seq
                   /\ \A other \in { x \in Range(history') :
                                         x.direction = "out" /\ x.seq > r.since
                                         /\ Includes(x.text, r.patterns[i]) } :
                        m.seq <= other.seq
          /\ (k \in DOMAIN allWaits /\ allWaits[k].status = "pending"
                /\ r.status = "resolved") =>
               /\ seq' = seq + 1
               /\ \E i \in DOMAIN r.patterns : r.got[i] = seq'
          /\ (k \in DOMAIN allWaits /\ allWaits[k].status = "pending"
                /\ r.status = "rejected") =>
               \E i \in DOMAIN r.patterns : AllMatches(allWaits[k], i) = {}
          /\ (k \in DOMAIN allWaits /\ allWaits[k].status # "pending") =>
               r.status = allWaits[k].status]_vars

\* a call resolved by two separate lines that arrived in the order opposite
\* to the order of the patterns
C33_Witness ==
  /\ Len(allWaits) >= 1
  /\ allWaits[1].status = "resolved"
  /\ allWaits[1].got[1] > allWaits[1].got[2]
  /\ allWaits[1].got[2] > allWaits[1].since


\* the content d occurs in the message m as a stage or a reader of the
\* history sees it
Shows(m, d) == Includes(m.raw, d) \/ Includes(m.text, d)

\* C34: sendSecret(data) writes the data to the child when the session
\* runs, starts no chain, and records one history entry that holds the
\* redaction marker and is flagged secret; no message that a stage is given
\* and no history entry ever shows the data.
C34_SecretNeverObserved ==
  /\ [][(history' # history /\ "secret" \in history'[Len(history')].meta) =>
          /\ history' = Append(history, history'[Len(history')])
          /\ history'[Len(history')].raw = Redacted
          /\ history'[Len(history')].text = Redacted
          /\ chains' = chains
          /\ last' = last
          /\ IF pty # NoPty /\ running
             THEN \E d \in SecretData : written' = Append(written, d)
             ELSE written' = written]_vars
  /\ [](\A d \in SecretData :
          /\ \A m \in Range(history) : ~Shows(m, d)
          /\ \A s \in DOMAIN chains : ~Shows(chains[s].msg, d) /\ chains[s].data # d
          /\ last # NoChain => ~Shows(last.msg, d) /\ last.data # d)

\* the child has received a secret while a chain was suspended, and the
\* history holds the flagged entry
C34_Witness ==
  /\ \E i \in DOMAIN written : written[i] \in SecretData
  /\ \E i \in DOMAIN history : "secret" \in history[i].meta
  /\ DOMAIN chains # {}


\* C35: whenever a caller waits in the queue, the pool is saturated: it
\* holds maxAgents entries or more and every one of them is in use, so no
\* capacity freed by a release, a child's exit or a destroyed entry is left
\* unused while a caller is queued.
C35_WaitersOnlyWhenSaturated ==
  Len(waitQueue) > 0 =>
    /\ Size >= poolConfig.maxAgents
    /\ \A id \in DOMAIN agents : agents[id].inUse

\* C36: a session that a caller holds is a pool entry marked in use, so
\* releasing it does not fail with 'Agent not in pool'.
C36_HeldIsKnownAndInUse ==
  \A c \in Callers :
    callers[c].pc = "holding" =>
      /\ callers[c].held \in DOMAIN agents
      /\ agents[callers[c].held].inUse

\* C38: the size of the pool is totalCreated minus totalDestroyed, each
\* entry being counted as destroyed at most once.
C38_StatsConsistent ==
  /\ Size = stats.totalCreated - stats.totalDestroyed
  /\ stats.totalDestroyed <= stats.totalCreated


\* C37: a session that was not disposed has at most one live child, and a
\* live child is the one the session tracks in _pty.
C37_AtMostOneLiveChild ==
  ~disposed => /\ Cardinality(live) <= 1
               /\ live \subseteq {pty}


\* the strings of q joined in order
RECURSIVE Joined(_)
Joined(q) == IF q = <<>> THEN <<>> ELSE Head(q) \o Joined(Tail(q))

\* everything the buffer has flushed so far, followed by what it holds
Delivered == Joined([i \in 1..Len(history) |-> history[i].raw]) \o buffer

\* C39: without clear(), the flush buffer neither loses, duplicates nor
\* reorders output: every step leaves the flushed chunks followed by the
\* buffer as they were or extends them at the end by the chunk that was
\* pushed, a push that arms the timer always extends them, and no flushed
\* chunk is empty.
C39_FlushConservesOutput ==
  /\ [][/\ \/ Delivered' = Delivered
           \/ \E chunk \in ConserveChunks : Delivered' = Delivered \o chunk
        /\ (timer' # NoTimer /\ timer' # timer) =>
             (\E chunk \in ConserveChunks : /\ Delivered' = Delivered \o chunk
                                            /\ buffer' = buffer \o chunk)
        /\ Len(history') > Len(history) =>
             /\ history' = Append(history, history'[Len(history')])
             /\ history'[Len(history')].raw \in
                  ({buffer} \cup { buffer \o pushed : pushed \in ConserveChunks })]_vars
  /\ [](\A i \in 1..Len(history) : history[i].raw # <<>>)

\* two chunks were flushed, one of them by the timer, and a third is held
C39_Witness ==
  /\ ~disposed
  /\ Len(history) = 2
  /\ \E i \in 1..Len(history) : ~EndsLine(history[i].raw)
  /\ buffer # <<>>


\* C40: the server never tracks more than maxConnections connections in
\* total, nor more than maxConnectionsPerIP for one client address.
C40_ConnectionLimits ==
  /\ Cardinality(DOMAIN connections) <= serverConfig.maxConnections
  /\ \A ip \in Ips :
       Cardinality({ s \in DOMAIN connections : connections[s] = ip })
         <= serverConfig.maxConnectionsPerIP

====
